---- MODULE Spec2Model ----
(***************************************************************************)
(* Model of the store layer of the Multi-Domain Intelligence Platform:     *)
(* the SQLite store (four tables and sqlite_sequence), the Authentication  *)
(* Manager (services/auth_manager.py) and the three Record Access units    *)
(* (services/security_service.py, dataset_service.py, it_service.py).      *)
(*                                                                         *)
(* Every service method is one action: DatabaseManager.execute runs one    *)
(* statement and commits it, so a method that issues one statement is one  *)
(* atomic step of the store.  The variable `last` records the call that    *)
(* was made last, its arguments and what it returned or raised.            *)
(***************************************************************************)
EXTENDS Integers, Sequences, FiniteSets, TLC

VARIABLES
    tables,               \* names of the tables that exist in the store file
    users,                \* rows of table users
    cyber_incidents,      \* rows of table cyber_incidents
    datasets_metadata,    \* rows of table datasets_metadata
    it_tickets,           \* rows of table it_tickets
    sqlite_sequence,      \* AUTOINCREMENT high-water mark of every table
    registered,           \* history: id of a row made by register |-> the call's arguments
    session,              \* st.session_state and page execution of every browser session
    ai,                   \* the AIAssistant object, once constructed
    last                  \* the last call: operation, arguments, result

vars == <<tables, users, cyber_incidents, datasets_metadata, it_tickets,
          sqlite_sequence, registered, session, ai, last>>

----------------------------------------------------------------------------
(* Bounds of the model *)

\* total number of row ids the store hands out in one behaviour
MaxRows == 2

----------------------------------------------------------------------------
(* Python values *)

\* None, the absent result
None == [t |-> "None"]

\* a str of the given code points
Str(cps) == [t |-> "str", v |-> cps]

\* a bytes object
Bytes(bs) == [t |-> "bytes", v |-> bs]

\* a Python int
PyInt(n) == [t |-> "int", v |-> n]

\* a Python float, given in tenths (PyFloat(-25) is -2.5)
PyFloat(tenths) == [t |-> "float", v |-> tenths]

\* an exception of the given class propagating out of the call
Raised(cls) == [t |-> "raise", v |-> cls]

RECURSIVE Concat(_)
\* the concatenation of a sequence of sequences
Concat(ss) == IF ss = <<>> THEN <<>> ELSE Head(ss) \o Concat(Tail(ss))

\* UTF-8 encoding of one code point below U+0800
encodeChar(c) == IF c < 128 THEN <<c>> ELSE <<192 + (c \div 64), 128 + (c % 64)>>

\* str.encode('utf-8')
encode(s) == Bytes(Concat([i \in 1..Len(s.v) |-> encodeChar(s.v[i])]))

\* the emptiness test left out
Falsy_never(s) == FALSE

\* Python truthiness of a str argument: `not s` holds for the empty string
Falsy(s) == s.v = <<>>

----------------------------------------------------------------------------
(* bcrypt *)

\* '$', the first byte of every bcrypt hash
DOLLAR == 36

\* the salts bcrypt.gensalt() can return
Salts == {46, 47}

\* the digest part of a hash: every byte of the password mixed with the salt
digest(pw, salt) == [i \in 1..Len(pw) |-> (pw[i] + salt + i) % 256]

\* the password stored as it was given
hashpw_plain(password, salt) == password

\* bcrypt.hashpw(password, salt): '$', the salt, the digest
hashpw(password, salt) == Bytes(<<DOLLAR, salt>> \o digest(password.v, salt))

\* a stored credential bcrypt can read its salt from
ValidSalt(hashed) ==
    /\ Len(hashed.v) >= 2
    /\ hashed.v[1] = DOLLAR
    /\ hashed.v[2] \in Salts

\* bcrypt.checkpw(password, hashed_password) raises: an argument is not
\* bytes (TypeError) or the hash carries no valid salt (ValueError)
checkpwRaises(password, hashed) ==
    \/ password.t # "bytes"
    \/ hashed.t # "bytes"
    \/ ~ValidSalt(hashed)

\* bcrypt.checkpw(password, hashed_password) when it does not raise: the
\* password hashed with the salt of the stored hash equals the stored hash
checkpw(password, hashed) == hashpw(password, hashed.v[2]) = hashed

----------------------------------------------------------------------------
(* The store *)

TableNames == {"users", "cyber_incidents", "datasets_metadata", "it_tickets"}

\* number of row ids handed out so far, over all tables
IdsUsed == sqlite_sequence["users"] + sqlite_sequence["cyber_incidents"]
           + sqlite_sequence["datasets_metadata"] + sqlite_sequence["it_tickets"]

\* the id of a table without AUTOINCREMENT: one more than the greatest id
\* among the rows the table holds now
NextId_maxRowid(t) ==
    LET rows == IF t = "users" THEN users
                ELSE IF t = "cyber_incidents" THEN cyber_incidents
                ELSE IF t = "datasets_metadata" THEN datasets_metadata
                ELSE it_tickets
    IN IF rows = {} THEN 1
       ELSE (CHOOSE r \in rows : \A q \in rows : q.id <= r.id).id + 1

\* the id AUTOINCREMENT gives the next row of table t
NextId(t) == sqlite_sequence[t] + 1

\* CREATE TABLE without IF NOT EXISTS: an error when the table is there
CreateTable_plain(tabs, t) ==
    [tables |-> tabs \cup {t},
     ret |-> IF t \in tabs THEN Raised("OperationalError") ELSE None]

\* CREATE TABLE IF NOT EXISTS t: the tables of the store afterwards and what
\* the statement returns; nothing happens when the table is there
CreateTableIfNotExists(tabs, t) == [tables |-> tabs \cup {t}, ret |-> None]

----------------------------------------------------------------------------
(* Authentication Manager *)

\* usernames and passwords given to register and login
Usernames == {Str(<<>>), Str(<<97>>), Str(<<98>>)}
Passwords == {Str(<<>>), Str(<<112>>), Str(<<233>>)}

\* role arguments of register; "default" is a call that gives no role
RoleArgs == {"default", "admin", "guest"}

\* the register calls made: (username, password, role argument)
RegisterCalls ==
    { <<Str(<<97>>), Str(<<112>>), "default">>,
      <<Str(<<97>>), Str(<<233>>), "admin">>,
      <<Str(<<98>>), Str(<<233>>), "guest">>,
      <<Str(<<>>), Str(<<112>>), "default">>,
      <<Str(<<97>>), Str(<<>>), "admin">> }

\* the login calls made: (username, password)
LoginCalls ==
    { <<Str(<<97>>), Str(<<112>>)>>,
      <<Str(<<97>>), Str(<<233>>)>>,
      <<Str(<<98>>), Str(<<112>>)>>,
      <<Str(<<98>>), Str(<<233>>)>>,
      <<Str(<<>>), Str(<<112>>)>>,
      <<Str(<<97>>), Str(<<>>)>> }

\* the role parameter's default value
DefaultRole == "user"

\* a row written to the users table by an earlier tool, whose credential is
\* text that is not a bcrypt hash
LegacyRow == [id |-> 1, username |-> Str(<<98>>),
              password_hash |-> Str(<<120, 120>>), role |-> "user"]

\* AuthManager.__init__ and _create_table
AuthManager_init ==
    /\ tables' = CreateTableIfNotExists(tables, "users").tables
    /\ last' = [op |-> "AuthManager", ret |-> CreateTableIfNotExists(tables, "users").ret]
    /\ UNCHANGED <<session, ai, users, cyber_incidents, datasets_metadata, it_tickets,
                   sqlite_sequence, registered>>

\* memoryview.tobytes()
tobytes(m) == Bytes(m.v)

\* the row fetchone returns for SELECT * FROM users WHERE username = ?
\* (username is UNIQUE, so at most one row matches), None when there is none
fetchUser(rows, username) ==
    IF \E r \in rows : r.username = username
    THEN CHOOSE r \in rows : r.username = username
    ELSE None

\* the whole row returned
UserIdentity_row(row) == row

\* the dict login returns on success: built from the row without its
\* password_hash
UserIdentity(row) == [id |-> row.id, username |-> row.username, role |-> row.role]

\* login with the exception of the verification left to propagate
loginResult_propagate(rows, username, password) ==
    IF Falsy(username) \/ Falsy(password) THEN None
    ELSE LET row == fetchUser(rows, username) IN
         IF row = None THEN None
         ELSE LET h0 == row.password_hash
                  h1 == IF h0.t = "memoryview" THEN tobytes(h0) ELSE h0
                  pwd_hash == IF h1.t = "str" THEN encode(h1) ELSE h1
              IN IF checkpwRaises(encode(password), pwd_hash) THEN Raised("ValueError")
                 ELSE IF checkpw(encode(password), pwd_hash)
                      THEN UserIdentity(row)
                      ELSE None

\* the result of login(username, password) against the rows `rows`
loginResult(rows, username, password) ==
    IF Falsy(username) \/ Falsy(password) THEN None
    ELSE LET row == fetchUser(rows, username) IN
         IF row = None THEN None
         ELSE LET h0 == row.password_hash
                  h1 == IF h0.t = "memoryview" THEN tobytes(h0) ELSE h0
                  pwd_hash == IF h1.t = "str" THEN encode(h1) ELSE h1
              IN IF checkpwRaises(encode(password), pwd_hash) THEN None
                 ELSE IF checkpw(encode(password), pwd_hash)
                      THEN UserIdentity(row)
                      ELSE None

\* the INSERT on a table without the UNIQUE constraint
InsertUser_noUnique(rows, id, username, hashed, role) ==
    [ok |-> TRUE,
     rows |-> rows \cup {[id |-> id, username |-> username,
                          password_hash |-> hashed, role |-> role]}]

\* INSERT OR REPLACE: a row with the same username is replaced
InsertUser_orReplace(rows, id, username, hashed, role) ==
    [ok |-> TRUE,
     rows |-> {r \in rows : r.username # username}
              \cup {[id |-> id, username |-> username,
                     password_hash |-> hashed, role |-> role]}]

\* the INSERT as an upsert that reports the conflict: the statement fails, but
\* the row of the username has taken the new credential and role
InsertUser_conflictUpdates(rows, id, username, hashed, role) ==
    IF \E r \in rows : r.username = username
    THEN [ok |-> FALSE,
          rows |-> {IF r.username = username
                    THEN [r EXCEPT !.password_hash = hashed, !.role = role]
                    ELSE r : r \in rows}]
    ELSE [ok |-> TRUE,
          rows |-> rows \cup {[id |-> id, username |-> username,
                               password_hash |-> hashed, role |-> role]}]

\* INSERT INTO users (username, password_hash, role) VALUES (?,?,?) on the
\* rows `rows`: the UNIQUE constraint on username makes the statement fail
\* and leaves the table as it was; otherwise the row is added under the next id
InsertUser(rows, id, username, hashed, role) ==
    IF \E r \in rows : r.username = username
    THEN [ok |-> FALSE, rows |-> rows]
    ELSE [ok |-> TRUE,
          rows |-> rows \cup {[id |-> id, username |-> username,
                               password_hash |-> hashed, role |-> role]}]

\* AuthManager.register
register(username, password, roleArg) ==
    LET role == IF roleArg = "default" THEN DefaultRole ELSE roleArg
        call == [op |-> "register", username |-> username, password |-> password,
                 roleArg |-> roleArg]
    IN
    /\ "users" \in tables
    /\ IF Falsy(username) \/ Falsy(password)
       THEN /\ last' = call @@ [stmts |-> 0, ret |-> FALSE]
            /\ UNCHANGED <<users, sqlite_sequence, registered>>
       ELSE \E salt \in Salts :
            LET hashed == hashpw(encode(password), salt)
                ins == InsertUser(users, NextId("users"), username, hashed, role)
            IN
            IF ~ins.ok
            THEN /\ last' = call @@ [stmts |-> 1, ret |-> FALSE]
                 /\ users' = ins.rows
                 /\ UNCHANGED <<sqlite_sequence, registered>>
            ELSE /\ IdsUsed < MaxRows
                 /\ users' = ins.rows
                 /\ sqlite_sequence' = [sqlite_sequence EXCEPT !["users"] = @ + 1]
                 /\ registered' = registered @@
                        (NextId("users") :> [username |-> username,
                                             password |-> password, role |-> role])
                 /\ last' = call @@ [stmts |-> 1, ret |-> TRUE]
    /\ UNCHANGED <<session, ai, tables, cyber_incidents, datasets_metadata, it_tickets>>

\* login that writes a text credential back to the row as bytes
login_migrating(username, password) ==
    /\ "users" \in tables
    /\ last' = [op |-> "login", username |-> username, password |-> password,
                ret |-> loginResult(users, username, password)]
    /\ users' = {IF r.username = username /\ r.password_hash.t = "str"
                 THEN [r EXCEPT !.password_hash = encode(@)] ELSE r : r \in users}
    /\ UNCHANGED <<session, ai, tables, cyber_incidents, datasets_metadata, it_tickets,
                   sqlite_sequence, registered>>

\* AuthManager.login
login(username, password) ==
    /\ "users" \in tables
    /\ last' = [op |-> "login", username |-> username, password |-> password,
                ret |-> loginResult(users, username, password)]
    /\ UNCHANGED <<session, ai, tables, users, cyber_incidents, datasets_metadata, it_tickets,
                   sqlite_sequence, registered>>

----------------------------------------------------------------------------
(* int() and the comparison of TEXT values *)

\* code points of a str without leading and trailing spaces: str.strip()
RECURSIVE lstrip(_)
lstrip(cps) == IF cps # <<>> /\ Head(cps) = 32 THEN lstrip(Tail(cps)) ELSE cps

RECURSIVE rstrip(_)
rstrip(cps) ==
    IF cps # <<>> /\ cps[Len(cps)] = 32 THEN rstrip(SubSeq(cps, 1, Len(cps) - 1)) ELSE cps

\* the digits of a numeric literal after its optional sign
unsigned(cps) == IF cps # <<>> /\ Head(cps) \in {43, 45} THEN Tail(cps) ELSE cps

\* a str that int() accepts: optional spaces, optional sign, decimal digits
IsIntLiteral(cps) ==
    LET d == unsigned(rstrip(lstrip(cps)))
    IN d # <<>> /\ \A i \in 1..Len(d) : d[i] \in 48..57

RECURSIVE digitsValue(_)
\* the number a sequence of decimal digits denotes
digitsValue(d) ==
    IF d = <<>> THEN 0 ELSE 10 * digitsValue(SubSeq(d, 1, Len(d) - 1)) + (d[Len(d)] - 48)

\* int(x) raises: ValueError for a str that is no integer literal,
\* TypeError for None
intRaises(x) ==
    \/ x.t = "None"
    \/ x.t = "str" /\ ~IsIntLiteral(x.v)

\* the exception int(x) raises
intError(x) == IF x.t = "None" THEN Raised("TypeError") ELSE Raised("ValueError")

\* int(x) when it does not raise: an int is itself, a float is truncated
\* toward zero, a str is parsed
int(x) ==
    IF x.t = "int" THEN x.v
    ELSE IF x.t = "float"
         THEN IF x.v >= 0 THEN x.v \div 10 ELSE -((-x.v) \div 10)
    ELSE LET c == rstrip(lstrip(x.v)) IN
         IF Head(c) = 45 THEN -digitsValue(unsigned(c)) ELSE digitsValue(unsigned(c))

RECURSIVE TextLess(_, _)
\* a < b for two TEXT values in SQLite's BINARY collation
TextLess(a, b) ==
    IF b = <<>> THEN FALSE
    ELSE IF a = <<>> THEN TRUE
    ELSE IF Head(a) # Head(b) THEN Head(a) < Head(b)
    ELSE TextLess(Tail(a), Tail(b))

\* the sequences that list every row of `rows` once
Listings(rows) ==
    {s \in [1..Cardinality(rows) -> rows] : \A i, j \in DOMAIN s : i # j => s[i] # s[j]}

\* the ORDER BY without DESC: no row before a row with a smaller key
OrderByDesc_asc(rows, key) ==
    {s \in Listings(rows) :
        \A i, j \in DOMAIN s : i < j => ~TextLess(s[j][key].v, s[i][key].v)}

\* the results SELECT * FROM t ORDER BY key DESC can return: every row once,
\* no row before a row with a greater key; rows with equal keys in any order
OrderByDesc(rows, key) ==
    {s \in Listings(rows) :
        \A i, j \in DOMAIN s : i < j => ~TextLess(s[i][key].v, s[j][key].v)}

\* row ids given to update and delete calls
Ids == {1, 2}

----------------------------------------------------------------------------
(* Bulk import and grouped queries *)

RECURSIVE firstError(_, _, _)
\* building the parameter tuple of one CSV record, column by column in the
\* order of the tuple: the first exception raised, None if there is none.
\* row[c] raises KeyError when the source has no column c.
firstError(row, cols, intCols) ==
    IF cols = <<>> THEN None
    ELSE IF Head(cols) \notin DOMAIN row THEN Raised("KeyError")
    ELSE IF Head(cols) \in intCols /\ intRaises(row[Head(cols)])
         THEN intError(row[Head(cols)])
    ELSE firstError(row, Tail(cols), intCols)

\* the column values bound for one CSV record
rowParams(row, cols, intCols) ==
    [c \in {cols[i] : i \in DOMAIN cols} |->
        IF c \in intCols THEN int(row[c]) ELSE row[c]]

RECURSIVE iterrows(_, _, _, _, _)
\* the loop of load_csv over the records of the source: every record is
\* inserted and committed on its own; the first record whose parameters raise
\* ends the loop with that exception, the rows inserted before it stay.
iterrows(rows, seq, records, cols, intCols) ==
    IF records = <<>> THEN [rows |-> rows, seq |-> seq, ret |-> None]
    ELSE LET err == firstError(Head(records), cols, intCols) IN
         IF err # None THEN [rows |-> rows, seq |-> seq, ret |-> err]
         ELSE iterrows(rows \cup {[id |-> seq + 1] @@ rowParams(Head(records), cols, intCols)},
                       seq + 1, Tail(records), cols, intCols)

\* the source read with its first record taken for a second header line
read_csv_and_insert_skipFirst(rows, seq, source, cols, intCols) ==
    IF ~source.exists THEN [rows |-> rows, seq |-> seq, ret |-> Raised("FileNotFoundError")]
    ELSE IF source.records = <<>> THEN [rows |-> rows, seq |-> seq, ret |-> None]
    ELSE iterrows(rows, seq, Tail(source.records), cols, intCols)

\* pd.read_csv(path) followed by the loop; a path that names no file raises
read_csv_and_insert(rows, seq, source, cols, intCols) ==
    IF ~source.exists THEN [rows |-> rows, seq |-> seq, ret |-> Raised("FileNotFoundError")]
    ELSE iterrows(rows, seq, source.records, cols, intCols)

RECURSIVE Sum(_, _)
\* SUM(col) over a set of rows
Sum(rows, col) ==
    IF rows = {} THEN 0
    ELSE LET r == CHOOSE x \in rows : TRUE IN r[col] + Sum(rows \ {r}, col)

\* the open-like rows taken to be those with status 'Open' alone
OpenRows_onlyOpen(rows) == {r \in rows : r.status = "Open"}

\* the rows whose status is open-like
OpenRows(rows) == {r \in rows : r.status \in {"Open", "In Progress"}}

\* the values of column col that occur in rows: the groups of GROUP BY col
Groups(rows, col) == {r[col] : r \in rows}

\* the count taken over the whole table instead of over the group
Group_all(rows, col, k) == rows

\* the rows of one group
Group(rows, col, k) == {r \in rows : r[col] = k}

----------------------------------------------------------------------------
(* Security incidents *)

\* argument tuples of create_incident and update_incident
IncidentArgs ==
    { [incident_id |-> PyInt(7), timestamp |-> Str(<<57>>), severity |-> "High",
       category |-> "Phishing", status |-> "Open", description |-> "d1"],
      [incident_id |-> Str(<<32, 55>>), timestamp |-> Str(<<49, 48>>), severity |-> "Low",
       category |-> "Malware", status |-> "Closed", description |-> "d2"],
      [incident_id |-> Str(<<120>>), timestamp |-> Str(<<57>>), severity |-> "High",
       category |-> "DDoS", status |-> "In Progress", description |-> "d3"] }

\* the column values create_incident and update_incident bind to the statement
incidentParams(a) ==
    [incident_id |-> int(a.incident_id), timestamp |-> a.timestamp,
     severity |-> a.severity, category |-> a.category, status |-> a.status,
     description |-> a.description]

\* SecurityService.__init__ and _create_table
SecurityService_init ==
    /\ tables' = CreateTableIfNotExists(tables, "cyber_incidents").tables
    /\ last' = [op |-> "SecurityService", ret |-> CreateTableIfNotExists(tables, "cyber_incidents").ret]
    /\ UNCHANGED <<session, ai, users, cyber_incidents, datasets_metadata, it_tickets,
                   sqlite_sequence, registered>>

\* SecurityService.create_incident
create_incident(a) ==
    /\ "cyber_incidents" \in tables
    /\ IF intRaises(a.incident_id)
       THEN /\ last' = [op |-> "create_incident", stmts |-> 0, ret |-> intError(a.incident_id)]
            /\ UNCHANGED <<cyber_incidents, sqlite_sequence>>
       ELSE /\ IdsUsed < MaxRows
            /\ cyber_incidents' = cyber_incidents \cup
                   {[id |-> NextId("cyber_incidents")] @@ incidentParams(a)}
            /\ sqlite_sequence' = [sqlite_sequence EXCEPT !["cyber_incidents"] = @ + 1]
            /\ last' = [op |-> "create_incident", stmts |-> 1, id |-> NextId("cyber_incidents"), ret |-> None]
    /\ UNCHANGED <<session, ai, tables, users, datasets_metadata, it_tickets, registered>>

\* the UPDATE without its WHERE clause: every row is replaced
update_incident_noWhere(id, a) ==
    /\ "cyber_incidents" \in tables
    /\ IF intRaises(a.incident_id)
       THEN /\ last' = [op |-> "update_incident", id |-> id, stmts |-> 0,
                        ret |-> intError(a.incident_id)]
            /\ UNCHANGED cyber_incidents
       ELSE /\ cyber_incidents' =
                   {[id |-> r.id] @@ incidentParams(a) : r \in cyber_incidents}
            /\ last' = [op |-> "update_incident", id |-> id, stmts |-> 1,
                        hit |-> (\E r \in cyber_incidents : r.id = id), ret |-> None]
    /\ UNCHANGED <<session, ai, tables, users, datasets_metadata, it_tickets, sqlite_sequence, registered>>

\* the UPDATE that leaves the description column out of its SET list
update_incident_in_keepsDescription(id, a, sess) ==
    /\ "cyber_incidents" \in tables
    /\ IF intRaises(a.incident_id)
       THEN /\ last' = [op |-> "update_incident", id |-> id, stmts |-> 0,
                        ret |-> intError(a.incident_id)]
            /\ UNCHANGED cyber_incidents
       ELSE /\ cyber_incidents' =
                   {IF r.id = id
                    THEN [[id |-> r.id] @@ incidentParams(a)
                             EXCEPT !.description = r.description]
                    ELSE r : r \in cyber_incidents}
            /\ last' = [op |-> "update_incident", id |-> id, stmts |-> 1,
                        hit |-> (\E r \in cyber_incidents : r.id = id), ret |-> None]
    /\ session' = sess
    /\ UNCHANGED <<ai, tables, users, datasets_metadata, it_tickets, sqlite_sequence,
                   registered>>

\* SecurityService.update_incident, called in a browser session whose state
\* after the call is sess
update_incident_in(id, a, sess) ==
    /\ "cyber_incidents" \in tables
    /\ IF intRaises(a.incident_id)
       THEN /\ last' = [op |-> "update_incident", id |-> id, stmts |-> 0,
                        ret |-> intError(a.incident_id)]
            /\ UNCHANGED cyber_incidents
       ELSE /\ cyber_incidents' =
                   {IF r.id = id THEN [id |-> r.id] @@ incidentParams(a) ELSE r :
                        r \in cyber_incidents}
            /\ last' = [op |-> "update_incident", id |-> id, stmts |-> 1,
                        hit |-> (\E r \in cyber_incidents : r.id = id), ret |-> None]
    /\ session' = sess
    /\ UNCHANGED <<ai, tables, users, datasets_metadata, it_tickets, sqlite_sequence,
                   registered>>

\* SecurityService.update_incident
update_incident(id, a) == update_incident_in(id, a, session)

\* SecurityService.delete_incident
delete_incident(id) ==
    /\ "cyber_incidents" \in tables
    /\ cyber_incidents' = {r \in cyber_incidents : r.id # id}
    /\ last' = [op |-> "delete_incident", id |-> id, stmts |-> 1,
                hit |-> (\E r \in cyber_incidents : r.id = id), ret |-> None]
    /\ UNCHANGED <<session, ai, tables, users, datasets_metadata, it_tickets, sqlite_sequence, registered>>

\* SecurityService.all
all_incidents ==
    /\ "cyber_incidents" \in tables
    /\ \E res \in OrderByDesc(cyber_incidents, "timestamp") :
           last' = [op |-> "all_incidents", ret |-> res]
    /\ UNCHANGED <<session, ai, tables, users, cyber_incidents, datasets_metadata, it_tickets,
                   sqlite_sequence, registered>>

\* columns of a cyber_incidents insert, in the order of the parameter tuple
incidentCols == <<"incident_id", "timestamp", "severity", "category", "status", "description">>

\* the CSV sources given to SecurityService.load_csv, by path: whether the file exists,
\* the columns of its header line, its records (a record has the columns of
\* the header)
IncidentCsv ==
    [ ok |-> [exists |-> TRUE, header |-> {incidentCols[i] : i \in DOMAIN incidentCols},
              records |->
                << [incident_id |-> PyInt(11), timestamp |-> Str(<<56>>), severity |-> "High",
                    category |-> "Phishing", status |-> "Open", description |-> "c1"],
                   [incident_id |-> PyInt(12), timestamp |-> Str(<<57>>), severity |-> "Critical",
                    category |-> "Malware", status |-> "Resolved", description |-> "c2"] >>],
      bad |-> [exists |-> TRUE, header |-> {incidentCols[i] : i \in DOMAIN incidentCols},
               records |->
                << [incident_id |-> Str(<<49, 49>>), timestamp |-> Str(<<56>>), severity |-> "High",
                    category |-> "Phishing", status |-> "Open", description |-> "c1"],
                   [incident_id |-> Str(<<110, 47, 97>>), timestamp |-> Str(<<57>>),
                    severity |-> "Low", category |-> "DDoS", status |-> "Closed",
                    description |-> "c2"] >>],
      nocol |-> [exists |-> TRUE, header |-> {incidentCols[i] : i \in DOMAIN incidentCols} \ {"status"},
                 records |->
                << [incident_id |-> PyInt(11), timestamp |-> Str(<<56>>), severity |-> "High",
                    category |-> "Phishing", description |-> "c1"] >>],
      one |-> [exists |-> TRUE, header |-> {incidentCols[i] : i \in DOMAIN incidentCols},
               records |->
                << [incident_id |-> PyFloat(139), timestamp |-> Str(<<55>>), severity |-> "Low",
                    category |-> "DDoS", status |-> "In Progress", description |-> "c3"] >>],
      headonly |-> [exists |-> TRUE, header |-> {incidentCols[i] : i \in DOMAIN incidentCols} \ {"status"},
                    records |-> <<>>],
      nofile |-> [exists |-> FALSE, header |-> {}, records |-> <<>>] ]

\* SecurityService.load_csv
load_csv_incidents(path) ==
    LET res == read_csv_and_insert(cyber_incidents, sqlite_sequence["cyber_incidents"],
                                   IncidentCsv[path], incidentCols, {"incident_id"})
    IN
    /\ "cyber_incidents" \in tables
    /\ IdsUsed + (res.seq - sqlite_sequence["cyber_incidents"]) <= MaxRows
    /\ cyber_incidents' = res.rows
    /\ sqlite_sequence' = [sqlite_sequence EXCEPT !["cyber_incidents"] = res.seq]
    /\ last' = [op |-> "load_csv_incidents", path |-> path, 
                stmts |-> res.seq - sqlite_sequence["cyber_incidents"], ret |-> res.ret]
    /\ UNCHANGED <<session, ai, tables, users, datasets_metadata, it_tickets, registered>>

\* SecurityService.total_count
incidents_total_count ==
    /\ "cyber_incidents" \in tables
    /\ last' = [op |-> "incidents_total_count", ret |-> Cardinality(cyber_incidents)]
    /\ UNCHANGED <<session, ai, tables, users, cyber_incidents, datasets_metadata, it_tickets,
                   sqlite_sequence, registered>>

\* SecurityService.open_count
incidents_open_count ==
    /\ "cyber_incidents" \in tables
    /\ last' = [op |-> "incidents_open_count", ret |-> Cardinality(OpenRows(cyber_incidents))]
    /\ UNCHANGED <<session, ai, tables, users, cyber_incidents, datasets_metadata, it_tickets,
                   sqlite_sequence, registered>>

\* SecurityService.category_counts; the rows of the result, in no order
category_counts ==
    /\ "cyber_incidents" \in tables
    /\ last' = [op |-> "category_counts", ret |->
                  {[category |-> k, cnt |-> Cardinality(Group(cyber_incidents, "category", k))] :
                       k \in Groups(cyber_incidents, "category")}]
    /\ UNCHANGED <<session, ai, tables, users, cyber_incidents, datasets_metadata, it_tickets,
                   sqlite_sequence, registered>>

\* SecurityService.severity_counts; the rows of the result, in no order
severity_counts ==
    /\ "cyber_incidents" \in tables
    /\ last' = [op |-> "severity_counts", ret |->
                  {[severity |-> k, cnt |-> Cardinality(Group(cyber_incidents, "severity", k))] :
                       k \in Groups(cyber_incidents, "severity")}]
    /\ UNCHANGED <<session, ai, tables, users, cyber_incidents, datasets_metadata, it_tickets,
                   sqlite_sequence, registered>>

\* SecurityService.status_counts; the rows of the result, in no order
incidents_status_counts ==
    /\ "cyber_incidents" \in tables
    /\ last' = [op |-> "incidents_status_counts", ret |->
                  {[status |-> k, cnt |-> Cardinality(Group(cyber_incidents, "status", k))] :
                       k \in Groups(cyber_incidents, "status")}]
    /\ UNCHANGED <<session, ai, tables, users, cyber_incidents, datasets_metadata, it_tickets,
                   sqlite_sequence, registered>>

----------------------------------------------------------------------------
(* Dataset metadata *)

\* argument tuples of create_dataset and update_dataset
DatasetArgs ==
    { [dataset_id |-> PyInt(3), name |-> "n1", rows |-> PyFloat(125), columns |-> Str(<<52>>),
       uploaded_by |-> "ann", upload_date |-> Str(<<50, 48>>)],
      [dataset_id |-> PyFloat(-39), name |-> "n2", rows |-> PyInt(0), columns |-> PyInt(2),
       uploaded_by |-> "bo", upload_date |-> Str(<<50, 48>>)],
      [dataset_id |-> PyInt(3), name |-> "n3", rows |-> Str(<<49, 46, 53>>), columns |-> PyInt(1),
       uploaded_by |-> "ann", upload_date |-> Str(<<50>>)] }

\* the first int() of create_dataset / update_dataset that raises, None if none does
datasetError(a) ==
    IF intRaises(a.dataset_id) THEN intError(a.dataset_id)
    ELSE IF intRaises(a.rows) THEN intError(a.rows)
    ELSE IF intRaises(a.columns) THEN intError(a.columns)
    ELSE None

\* the parameter tuple with rows and columns in each other's place
datasetParams_swapped(a) ==
    [dataset_id |-> int(a.dataset_id), name |-> a.name, rows |-> int(a.columns),
     columns |-> int(a.rows), uploaded_by |-> a.uploaded_by,
     upload_date |-> a.upload_date]

\* the column values create_dataset and update_dataset bind to the statement
datasetParams(a) ==
    [dataset_id |-> int(a.dataset_id), name |-> a.name, rows |-> int(a.rows),
     columns |-> int(a.columns), uploaded_by |-> a.uploaded_by,
     upload_date |-> a.upload_date]

\* DatasetService.__init__ and _create_table
DatasetService_init ==
    /\ tables' = CreateTableIfNotExists(tables, "datasets_metadata").tables
    /\ last' = [op |-> "DatasetService", ret |-> CreateTableIfNotExists(tables, "datasets_metadata").ret]
    /\ UNCHANGED <<session, ai, users, cyber_incidents, datasets_metadata, it_tickets,
                   sqlite_sequence, registered>>

\* DatasetService.create_dataset
create_dataset(a) ==
    /\ "datasets_metadata" \in tables
    /\ IF datasetError(a) # None
       THEN /\ last' = [op |-> "create_dataset", stmts |-> 0, ret |-> datasetError(a)]
            /\ UNCHANGED <<datasets_metadata, sqlite_sequence>>
       ELSE /\ IdsUsed < MaxRows
            /\ datasets_metadata' = datasets_metadata \cup
                   {[id |-> NextId("datasets_metadata")] @@ datasetParams(a)}
            /\ sqlite_sequence' = [sqlite_sequence EXCEPT !["datasets_metadata"] = @ + 1]
            /\ last' = [op |-> "create_dataset", stmts |-> 1, id |-> NextId("datasets_metadata"), ret |-> None]
    /\ UNCHANGED <<session, ai, tables, users, cyber_incidents, it_tickets, registered>>

\* the UPDATE written as INSERT OR REPLACE: a row is made when none has the id
update_dataset_upsert(id, a) ==
    /\ "datasets_metadata" \in tables
    /\ IF datasetError(a) # None
       THEN /\ last' = [op |-> "update_dataset", id |-> id, stmts |-> 0, ret |-> datasetError(a)]
            /\ UNCHANGED datasets_metadata
       ELSE /\ datasets_metadata' =
                   {r \in datasets_metadata : r.id # id} \cup {[id |-> id] @@ datasetParams(a)}
            /\ last' = [op |-> "update_dataset", id |-> id, stmts |-> 1,
                        hit |-> (\E r \in datasets_metadata : r.id = id), ret |-> None]
    /\ UNCHANGED <<session, ai, tables, users, cyber_incidents, it_tickets, sqlite_sequence, registered>>

\* DatasetService.update_dataset
update_dataset(id, a) ==
    /\ "datasets_metadata" \in tables
    /\ IF datasetError(a) # None
       THEN /\ last' = [op |-> "update_dataset", id |-> id, stmts |-> 0, ret |-> datasetError(a)]
            /\ UNCHANGED datasets_metadata
       ELSE /\ datasets_metadata' =
                   {IF r.id = id THEN [id |-> r.id] @@ datasetParams(a) ELSE r :
                        r \in datasets_metadata}
            /\ last' = [op |-> "update_dataset", id |-> id, stmts |-> 1,
                        hit |-> (\E r \in datasets_metadata : r.id = id), ret |-> None]
    /\ UNCHANGED <<session, ai, tables, users, cyber_incidents, it_tickets, sqlite_sequence, registered>>

\* the DELETE of the dataset unit naming the tickets table
delete_dataset_wrongTable(id) ==
    /\ "datasets_metadata" \in tables
    /\ it_tickets' = {r \in it_tickets : r.id # id}
    /\ last' = [op |-> "delete_dataset", id |-> id, stmts |-> 1,
                hit |-> (\E r \in datasets_metadata : r.id = id), ret |-> None]
    /\ UNCHANGED <<session, ai, tables, users, cyber_incidents, datasets_metadata, sqlite_sequence,
                   registered>>

\* DatasetService.delete_dataset
delete_dataset(id) ==
    /\ "datasets_metadata" \in tables
    /\ datasets_metadata' = {r \in datasets_metadata : r.id # id}
    /\ last' = [op |-> "delete_dataset", id |-> id, stmts |-> 1,
                hit |-> (\E r \in datasets_metadata : r.id = id), ret |-> None]
    /\ UNCHANGED <<session, ai, tables, users, cyber_incidents, it_tickets, sqlite_sequence, registered>>

\* DatasetService.all
all_datasets ==
    /\ "datasets_metadata" \in tables
    /\ \E res \in OrderByDesc(datasets_metadata, "upload_date") :
           last' = [op |-> "all_datasets", ret |-> res]
    /\ UNCHANGED <<session, ai, tables, users, cyber_incidents, datasets_metadata, it_tickets,
                   sqlite_sequence, registered>>

\* columns of a datasets_metadata insert, in the order of the parameter tuple
datasetCols == <<"dataset_id", "name", "rows", "columns", "uploaded_by", "upload_date">>

\* the CSV sources given to DatasetService.load_csv, by path: whether the file exists,
\* the columns of its header line, its records (a record has the columns of
\* the header)
DatasetCsv ==
    [ ok |-> [exists |-> TRUE, header |-> {datasetCols[i] : i \in DOMAIN datasetCols},
              records |->
                << [dataset_id |-> PyInt(21), name |-> "m1", rows |-> PyInt(100),
                    columns |-> PyInt(4), uploaded_by |-> "ann", upload_date |-> Str(<<50>>)],
                   [dataset_id |-> PyInt(22), name |-> "m2", rows |-> PyInt(50),
                    columns |-> PyInt(2), uploaded_by |-> "ann", upload_date |-> Str(<<51>>)] >>],
      bad |-> [exists |-> TRUE, header |-> {datasetCols[i] : i \in DOMAIN datasetCols},
               records |->
                << [dataset_id |-> PyInt(21), name |-> "m1", rows |-> PyFloat(1000),
                    columns |-> PyInt(4), uploaded_by |-> "ann", upload_date |-> Str(<<50>>)],
                   [dataset_id |-> PyInt(22), name |-> "m2", rows |-> None,
                    columns |-> PyInt(2), uploaded_by |-> "bo", upload_date |-> Str(<<51>>)] >>],
      nocol |-> [exists |-> TRUE, header |-> {datasetCols[i] : i \in DOMAIN datasetCols} \ {"columns"},
                 records |->
                << [dataset_id |-> PyInt(21), name |-> "m1", rows |-> PyInt(100),
                    uploaded_by |-> "ann", upload_date |-> Str(<<50>>)] >>],
      one |-> [exists |-> TRUE, header |-> {datasetCols[i] : i \in DOMAIN datasetCols},
               records |->
                << [dataset_id |-> PyInt(23), name |-> "m3", rows |-> PyFloat(75),
                    columns |-> PyInt(3), uploaded_by |-> "bo", upload_date |-> Str(<<52>>)] >>],
      headonly |-> [exists |-> TRUE, header |-> {datasetCols[i] : i \in DOMAIN datasetCols} \ {"columns"},
                    records |-> <<>>],
      nofile |-> [exists |-> FALSE, header |-> {}, records |-> <<>>] ]

\* DatasetService.load_csv
load_csv_datasets(path) ==
    LET res == read_csv_and_insert(datasets_metadata, sqlite_sequence["datasets_metadata"],
                                   DatasetCsv[path], datasetCols,
                                   {"dataset_id", "rows", "columns"})
    IN
    /\ "datasets_metadata" \in tables
    /\ IdsUsed + (res.seq - sqlite_sequence["datasets_metadata"]) <= MaxRows
    /\ datasets_metadata' = res.rows
    /\ sqlite_sequence' = [sqlite_sequence EXCEPT !["datasets_metadata"] = res.seq]
    /\ last' = [op |-> "load_csv_datasets", path |-> path, 
                stmts |-> res.seq - sqlite_sequence["datasets_metadata"], ret |-> res.ret]
    /\ UNCHANGED <<session, ai, tables, users, cyber_incidents, it_tickets, registered>>

\* DatasetService.total_count
datasets_total_count ==
    /\ "datasets_metadata" \in tables
    /\ last' = [op |-> "datasets_total_count", ret |-> Cardinality(datasets_metadata)]
    /\ UNCHANGED <<session, ai, tables, users, cyber_incidents, datasets_metadata, it_tickets,
                   sqlite_sequence, registered>>

\* DatasetService.total_rows: SUM(rows), 0 when the sum is NULL or 0
total_rows ==
    /\ "datasets_metadata" \in tables
    /\ last' = [op |-> "total_rows", ret |-> Sum(datasets_metadata, "rows")]
    /\ UNCHANGED <<session, ai, tables, users, cyber_incidents, datasets_metadata, it_tickets,
                   sqlite_sequence, registered>>

\* DatasetService.uploader_summary; the rows of the result, in no order
uploader_summary ==
    /\ "datasets_metadata" \in tables
    /\ last' = [op |-> "uploader_summary", ret |->
                  {[uploaded_by |-> k,
                    dataset_count |-> Cardinality(Group(datasets_metadata, "uploaded_by", k)),
                    total_rows |-> Sum(Group(datasets_metadata, "uploaded_by", k), "rows")] :
                       k \in Groups(datasets_metadata, "uploaded_by")}]
    /\ UNCHANGED <<session, ai, tables, users, cyber_incidents, datasets_metadata, it_tickets,
                   sqlite_sequence, registered>>

----------------------------------------------------------------------------
(* IT tickets *)

\* argument tuples of create_ticket and update_ticket
TicketArgs ==
    { [ticket_id |-> PyInt(5), priority |-> "High", description |-> "t1", status |-> "Open",
       assigned_to |-> "ann", created_at |-> Str(<<49>>),
       resolution_time_hours |-> PyFloat(49)],
      [ticket_id |-> Str(<<45, 53>>), priority |-> "Low", description |-> "t2",
       status |-> "Resolved", assigned_to |-> "bo", created_at |-> Str(<<49, 49>>),
       resolution_time_hours |-> PyInt(8)],
      [ticket_id |-> PyInt(5), priority |-> "High", description |-> "t3",
       status |-> "Waiting for User", assigned_to |-> "ann", created_at |-> Str(<<49>>),
       resolution_time_hours |-> None] }

\* the first int() of create_ticket / update_ticket that raises, None if none does
ticketError(a) ==
    IF intRaises(a.ticket_id) THEN intError(a.ticket_id)
    ELSE IF intRaises(a.resolution_time_hours) THEN intError(a.resolution_time_hours)
    ELSE None

\* the column values create_ticket and update_ticket bind to the statement
ticketParams(a) ==
    [ticket_id |-> int(a.ticket_id), priority |-> a.priority,
     description |-> a.description, status |-> a.status, assigned_to |-> a.assigned_to,
     created_at |-> a.created_at,
     resolution_time_hours |-> int(a.resolution_time_hours)]

\* ITService.__init__ and _create_table
ITService_init ==
    /\ tables' = CreateTableIfNotExists(tables, "it_tickets").tables
    /\ last' = [op |-> "ITService", ret |-> CreateTableIfNotExists(tables, "it_tickets").ret]
    /\ UNCHANGED <<session, ai, users, cyber_incidents, datasets_metadata, it_tickets,
                   sqlite_sequence, registered>>

\* create_ticket with the conversion error caught and dropped
create_ticket_swallows(a) ==
    /\ "it_tickets" \in tables
    /\ IF ticketError(a) # None
       THEN /\ last' = [op |-> "create_ticket", stmts |-> 0, ret |-> None]
            /\ UNCHANGED <<it_tickets, sqlite_sequence>>
       ELSE /\ IdsUsed < MaxRows
            /\ it_tickets' = it_tickets \cup
                   {[id |-> NextId("it_tickets")] @@ ticketParams(a)}
            /\ sqlite_sequence' = [sqlite_sequence EXCEPT !["it_tickets"] = @ + 1]
            /\ last' = [op |-> "create_ticket", stmts |-> 1, id |-> NextId("it_tickets"), ret |-> None]
    /\ UNCHANGED <<session, ai, tables, users, cyber_incidents, datasets_metadata, registered>>

\* ITService.create_ticket
create_ticket(a) ==
    /\ "it_tickets" \in tables
    /\ IF ticketError(a) # None
       THEN /\ last' = [op |-> "create_ticket", stmts |-> 0, ret |-> ticketError(a)]
            /\ UNCHANGED <<it_tickets, sqlite_sequence>>
       ELSE /\ IdsUsed < MaxRows
            /\ it_tickets' = it_tickets \cup
                   {[id |-> NextId("it_tickets")] @@ ticketParams(a)}
            /\ sqlite_sequence' = [sqlite_sequence EXCEPT !["it_tickets"] = @ + 1]
            /\ last' = [op |-> "create_ticket", stmts |-> 1, id |-> NextId("it_tickets"), ret |-> None]
    /\ UNCHANGED <<session, ai, tables, users, cyber_incidents, datasets_metadata, registered>>

\* ITService.update_ticket
update_ticket(id, a) ==
    /\ "it_tickets" \in tables
    /\ IF ticketError(a) # None
       THEN /\ last' = [op |-> "update_ticket", id |-> id, stmts |-> 0, ret |-> ticketError(a)]
            /\ UNCHANGED it_tickets
       ELSE /\ it_tickets' =
                   {IF r.id = id THEN [id |-> r.id] @@ ticketParams(a) ELSE r :
                        r \in it_tickets}
            /\ last' = [op |-> "update_ticket", id |-> id, stmts |-> 1,
                        hit |-> (\E r \in it_tickets : r.id = id), ret |-> None]
    /\ UNCHANGED <<session, ai, tables, users, cyber_incidents, datasets_metadata, sqlite_sequence,
                   registered>>

\* the DELETE keyed by the external ticket identifier instead of the row id
delete_ticket_byTicketId(id) ==
    /\ "it_tickets" \in tables
    /\ it_tickets' = {r \in it_tickets : r.ticket_id # id}
    /\ last' = [op |-> "delete_ticket", id |-> id, stmts |-> 1,
                hit |-> (\E r \in it_tickets : r.id = id), ret |-> None]
    /\ UNCHANGED <<session, ai, tables, users, cyber_incidents, datasets_metadata, sqlite_sequence,
                   registered>>

\* ITService.delete_ticket
delete_ticket(id) ==
    /\ "it_tickets" \in tables
    /\ it_tickets' = {r \in it_tickets : r.id # id}
    /\ last' = [op |-> "delete_ticket", id |-> id, stmts |-> 1,
                hit |-> (\E r \in it_tickets : r.id = id), ret |-> None]
    /\ UNCHANGED <<session, ai, tables, users, cyber_incidents, datasets_metadata, sqlite_sequence,
                   registered>>

\* ITService.all
all_tickets ==
    /\ "it_tickets" \in tables
    /\ \E res \in OrderByDesc(it_tickets, "created_at") :
           last' = [op |-> "all_tickets", ret |-> res]
    /\ UNCHANGED <<session, ai, tables, users, cyber_incidents, datasets_metadata, it_tickets,
                   sqlite_sequence, registered>>

\* columns of an it_tickets insert, in the order of the parameter tuple
ticketCols == <<"ticket_id", "priority", "description", "status", "assigned_to",
                "created_at", "resolution_time_hours">>

\* the CSV sources given to ITService.load_csv, by path: whether the file exists,
\* the columns of its header line, its records (a record has the columns of
\* the header)
TicketCsv ==
    [ ok |-> [exists |-> TRUE, header |-> {ticketCols[i] : i \in DOMAIN ticketCols},
              records |->
                << [ticket_id |-> PyInt(31), priority |-> "High", description |-> "k1",
                    status |-> "Open", assigned_to |-> "ann", created_at |-> Str(<<50>>),
                    resolution_time_hours |-> PyInt(0)],
                   [ticket_id |-> PyInt(32), priority |-> "Medium", description |-> "k2",
                    status |-> "In Progress", assigned_to |-> "bo", created_at |-> Str(<<51>>),
                    resolution_time_hours |-> PyInt(5)] >>],
      bad |-> [exists |-> TRUE, header |-> {ticketCols[i] : i \in DOMAIN ticketCols},
               records |->
                << [ticket_id |-> Str(<<51, 49>>), priority |-> "High", description |-> "k1",
                    status |-> "Open", assigned_to |-> "ann", created_at |-> Str(<<50>>),
                    resolution_time_hours |-> Str(<<55>>)],
                   [ticket_id |-> Str(<<51, 50>>), priority |-> "Low", description |-> "k2",
                    status |-> "Resolved", assigned_to |-> "bo", created_at |-> Str(<<51>>),
                    resolution_time_hours |-> Str(<<>>)] >>],
      nocol |-> [exists |-> TRUE, header |-> {ticketCols[i] : i \in DOMAIN ticketCols} \ {"resolution_time_hours"},
                 records |->
                << [ticket_id |-> PyInt(31), priority |-> "High", description |-> "k1",
                    status |-> "Open", assigned_to |-> "ann", created_at |-> Str(<<50>>)] >>],
      one |-> [exists |-> TRUE, header |-> {ticketCols[i] : i \in DOMAIN ticketCols},
               records |->
                << [ticket_id |-> PyInt(33), priority |-> "Low", description |-> "k3",
                    status |-> "In Progress", assigned_to |-> "bo", created_at |-> Str(<<52>>),
                    resolution_time_hours |-> PyFloat(25)] >>],
      headonly |-> [exists |-> TRUE, header |-> {ticketCols[i] : i \in DOMAIN ticketCols} \ {"resolution_time_hours"},
                    records |-> <<>>],
      nofile |-> [exists |-> FALSE, header |-> {}, records |-> <<>>] ]

\* ITService.load_csv
load_csv_tickets(path) ==
    LET res == read_csv_and_insert(it_tickets, sqlite_sequence["it_tickets"],
                                   TicketCsv[path], ticketCols,
                                   {"ticket_id", "resolution_time_hours"})
    IN
    /\ "it_tickets" \in tables
    /\ IdsUsed + (res.seq - sqlite_sequence["it_tickets"]) <= MaxRows
    /\ it_tickets' = res.rows
    /\ sqlite_sequence' = [sqlite_sequence EXCEPT !["it_tickets"] = res.seq]
    /\ last' = [op |-> "load_csv_tickets", path |-> path, 
                stmts |-> res.seq - sqlite_sequence["it_tickets"], ret |-> res.ret]
    /\ UNCHANGED <<session, ai, tables, users, cyber_incidents, datasets_metadata, registered>>

\* ITService.total_count
tickets_total_count ==
    /\ "it_tickets" \in tables
    /\ last' = [op |-> "tickets_total_count", ret |-> Cardinality(it_tickets)]
    /\ UNCHANGED <<session, ai, tables, users, cyber_incidents, datasets_metadata, it_tickets,
                   sqlite_sequence, registered>>

\* ITService.open_count
tickets_open_count ==
    /\ "it_tickets" \in tables
    /\ last' = [op |-> "tickets_open_count", ret |-> Cardinality(OpenRows(it_tickets))]
    /\ UNCHANGED <<session, ai, tables, users, cyber_incidents, datasets_metadata, it_tickets,
                   sqlite_sequence, registered>>

\* AVG(resolution_time_hours) over a non-empty set of rows, as the exact
\* fraction num / den
Avg(rows) == [num |-> Sum(rows, "resolution_time_hours"), den |-> Cardinality(rows)]

\* a / b > c / d for fractions with positive denominators
FracGreater(x, y) == x.num * y.den > y.num * x.den

\* round(num / den, 1) in tenths: to the nearest tenth, a tie to the even tenth
roundTenths(x) ==
    LET lo == (10 * x.num) \div x.den
        rem == (10 * x.num) % x.den
    IN IF 2 * rem < x.den THEN lo
       ELSE IF 2 * rem > x.den THEN lo + 1
       ELSE IF lo % 2 = 0 THEN lo ELSE lo + 1

\* ITService.avg_resolution_time: 0 when there is no row or the average is 0
avg_resolution_time ==
    /\ "it_tickets" \in tables
    /\ last' = [op |-> "avg_resolution_time", ret |->
                  IF it_tickets = {} \/ Sum(it_tickets, "resolution_time_hours") = 0
                  THEN PyInt(0)
                  ELSE PyFloat(roundTenths(Avg(it_tickets)))]
    /\ UNCHANGED <<session, ai, tables, users, cyber_incidents, datasets_metadata, it_tickets,
                   sqlite_sequence, registered>>

\* ITService.priority_counts; the rows of the result, in no order
priority_counts ==
    /\ "it_tickets" \in tables
    /\ last' = [op |-> "priority_counts", ret |->
                  {[priority |-> k, cnt |-> Cardinality(Group(it_tickets, "priority", k))] :
                       k \in Groups(it_tickets, "priority")}]
    /\ UNCHANGED <<session, ai, tables, users, cyber_incidents, datasets_metadata, it_tickets,
                   sqlite_sequence, registered>>

\* ITService.status_counts; the rows of the result, in no order
tickets_status_counts ==
    /\ "it_tickets" \in tables
    /\ last' = [op |-> "tickets_status_counts", ret |->
                  {[status |-> k, cnt |-> Cardinality(Group(it_tickets, "status", k))] :
                       k \in Groups(it_tickets, "status")}]
    /\ UNCHANGED <<session, ai, tables, users, cyber_incidents, datasets_metadata, it_tickets,
                   sqlite_sequence, registered>>

\* the result rows of the queries grouped by assignee
AssigneeRows ==
    {[assigned_to |-> k,
      ticket_count |-> Cardinality(Group(it_tickets, "assigned_to", k)),
      avg_resolution |-> Avg(Group(it_tickets, "assigned_to", k))] :
         k \in Groups(it_tickets, "assigned_to")}

\* ITService.assignee_summary: one row per assignee, ORDER BY ticket_count
\* DESC, assignees with equal counts in any order
assignee_summary ==
    /\ "it_tickets" \in tables
    /\ \E res \in {s \in Listings(AssigneeRows) :
                      \A i, j \in DOMAIN s : i < j => s[i].ticket_count >= s[j].ticket_count} :
           last' = [op |-> "assignee_summary", ret |-> res]
    /\ UNCHANGED <<session, ai, tables, users, cyber_incidents, datasets_metadata, it_tickets,
                   sqlite_sequence, registered>>

\* the query with ORDER BY avg_res in ascending order: one of the assignees
\* with the smallest average
slowest_assignee_asc ==
    /\ "it_tickets" \in tables
    /\ \/ /\ it_tickets = {}
          /\ last' = [op |-> "slowest_assignee", ret |-> <<>>]
       \/ \E g \in AssigneeRows :
          /\ \A h \in AssigneeRows : ~FracGreater(g.avg_resolution, h.avg_resolution)
          /\ last' = [op |-> "slowest_assignee", ret |->
                        << [assigned_to |-> g.assigned_to, avg_res |-> g.avg_resolution] >>]
    /\ UNCHANGED <<session, ai, tables, users, cyber_incidents, datasets_metadata, it_tickets,
                   sqlite_sequence, registered>>

\* ITService.slowest_assignee: ORDER BY avg_res DESC LIMIT 1, the empty list
\* when there is no ticket; one of the assignees with the greatest average
slowest_assignee ==
    /\ "it_tickets" \in tables
    /\ \/ /\ it_tickets = {}
          /\ last' = [op |-> "slowest_assignee", ret |-> <<>>]
       \/ \E g \in AssigneeRows :
          /\ \A h \in AssigneeRows : ~FracGreater(h.avg_resolution, g.avg_resolution)
          /\ last' = [op |-> "slowest_assignee", ret |->
                        << [assigned_to |-> g.assigned_to, avg_res |-> g.avg_resolution] >>]
    /\ UNCHANGED <<session, ai, tables, users, cyber_incidents, datasets_metadata, it_tickets,
                   sqlite_sequence, registered>>

----------------------------------------------------------------------------
(* Browser sessions: the login page and the three dashboard pages *)

\* the browser sessions; each has its own st.session_state, and every page
\* execution constructs its own manager on its own connection
Sessions == {1, 2}

\* the dashboard pages
Pages == {"Cybersecurity", "Data_Science", "IT_Operations"}

\* the table of the service a dashboard page constructs
PageTable ==
    [Cybersecurity |-> "cyber_incidents", Data_Science |-> "datasets_metadata",
     IT_Operations |-> "it_tickets"]

\* the service a dashboard page constructs
PageService ==
    [Cybersecurity |-> "SecurityService", Data_Science |-> "DatasetService",
     IT_Operations |-> "ITService"]

\* a session before its first page execution (init_session): nobody is
\* logged in and no page body is running.  view holds the rows the running
\* page body read with all(), wrote the update it issued, reg the register
\* call the login page is in the middle of.
InitSession ==
    [current_user |-> None, page |-> "idle", view |-> {}, wrote |-> {}, reg |-> {}]

\* the username and password the register form passes to auth.register
FormRegisterCalls == {<<c[1], c[2]>> : c \in {d \in RegisterCalls : d[3] = "default"}}
                     \cup {<<Str(<<97>>), Str(<<233>>)>>}

\* the login handler keeping the whole users row in the session
login_handler_storesRow(s, username, password) ==
    /\ session[s].page = "idle" /\ session[s].current_user = None
    /\ "users" \in tables
    /\ LET user == loginResult(users, username, password) IN
       /\ last' = [op |-> "login", username |-> username, password |-> password,
                   ret |-> user]
       /\ session' = IF user # None
                     THEN [session EXCEPT ![s].current_user = fetchUser(users, username)]
                     ELSE session
    /\ UNCHANGED <<ai, tables, users, cyber_incidents, datasets_metadata, it_tickets,
                   sqlite_sequence, registered>>

\* the Login button of the login page: the form is shown when nobody is
\* logged in; a truthy result of auth.login becomes current_user
login_handler(s, username, password) ==
    /\ session[s].page = "idle" /\ session[s].current_user = None
    /\ "users" \in tables
    /\ LET user == loginResult(users, username, password) IN
       /\ last' = [op |-> "login", username |-> username, password |-> password,
                   ret |-> user]
       /\ session' = IF user # None
                     THEN [session EXCEPT ![s].current_user = user]
                     ELSE session
    /\ UNCHANGED <<ai, tables, users, cyber_incidents, datasets_metadata, it_tickets,
                   sqlite_sequence, registered>>

\* the Create Account button of the login page: auth.register(username,
\* password), after which the page shows a message
register_handler(s, username, password) ==
    /\ session[s].page = "idle" /\ session[s].current_user = None
    /\ register(username, password, "default")

\* the register call a session is in the middle of, or has made last
RegOf(s) == CHOOSE r \in session[s].reg : TRUE

\* another connection holds the write lock of the store file: it has run its
\* INSERT and not committed yet
LockedByOther(s) ==
    \E t \in Sessions \ {s} : \E r \in session[t].reg : r.phase = "executed"

\* what register leaves in `last` when it returns
RegisterReturn(r, stmts, ret) ==
    [op |-> "register", username |-> r.username, password |-> r.password,
     roleArg |-> "default", stmts |-> stmts, ret |-> ret]

\* AuthManager.register up to the INSERT: the emptiness test and bcrypt.hashpw.
\* fresh records whether the username had no row when the call began.
register_begin(s, username, password) ==
    /\ session[s].page = "idle" /\ session[s].current_user = None
    /\ \A r \in session[s].reg : r.phase = "returned"
    /\ "users" \in tables
    /\ LET call == [username |-> username, password |-> password,
                    fresh |-> ~\E r \in users : r.username = username]
       IN
       IF Falsy(username) \/ Falsy(password)
       THEN /\ session' = [session EXCEPT ![s].reg =
                              {call @@ [hashed |-> None, phase |-> "returned", ret |-> FALSE]}]
            /\ last' = RegisterReturn(call, 0, FALSE)
       ELSE /\ \E salt \in Salts :
                 session' = [session EXCEPT ![s].reg =
                                {call @@ [hashed |-> hashpw(encode(password), salt),
                                          phase |-> "hashed", ret |-> FALSE]}]
            /\ UNCHANGED last
    /\ UNCHANGED <<ai, tables, users, cyber_incidents, datasets_metadata, it_tickets,
                   sqlite_sequence, registered>>

\* the INSERT run without taking the write lock: it sees the committed rows
\* only
register_execute_noLock(s) ==
    /\ session[s].reg # {} /\ RegOf(s).phase = "hashed"
    /\ LET r == RegOf(s)
           ins == InsertUser(users, NextId("users"), r.username, r.hashed, DefaultRole)
       IN
       IF ~ins.ok
       THEN /\ session' = [session EXCEPT ![s].reg =
                              {[r EXCEPT !.phase = "returned", !.ret = FALSE]}]
            /\ last' = RegisterReturn(r, 1, FALSE)
       ELSE /\ IdsUsed < MaxRows
            /\ session' = [session EXCEPT ![s].reg = {[r EXCEPT !.phase = "executed"]}]
            /\ UNCHANGED last
    /\ UNCHANGED <<ai, tables, users, cyber_incidents, datasets_metadata, it_tickets,
                   sqlite_sequence, registered>>

\* cur.execute(INSERT ...) of register on the session's own connection.  The
\* statement needs the write lock: while another connection holds it the
\* statement waits, and either gets the lock once that connection has
\* committed or gives up (sqlite3.OperationalError: database is locked).
\* With the lock it fails on a username that has a row
\* (sqlite3.IntegrityError).  register turns either error into False.
register_execute(s) ==
    /\ session[s].reg # {} /\ RegOf(s).phase = "hashed"
    /\ LET r == RegOf(s)
           ins == InsertUser(users, NextId("users"), r.username, r.hashed, DefaultRole)
       IN
       IF LockedByOther(s) \/ ~ins.ok
       THEN /\ session' = [session EXCEPT ![s].reg =
                              {[r EXCEPT !.phase = "returned", !.ret = FALSE]}]
            /\ last' = RegisterReturn(r, 1, FALSE)
       ELSE /\ IdsUsed < MaxRows
            /\ session' = [session EXCEPT ![s].reg = {[r EXCEPT !.phase = "executed"]}]
            /\ UNCHANGED last
    /\ UNCHANGED <<ai, tables, users, cyber_incidents, datasets_metadata, it_tickets,
                   sqlite_sequence, registered>>

\* conn.commit() after the INSERT: the row becomes part of the table and
\* register returns True
register_commit(s) ==
    /\ session[s].reg # {} /\ RegOf(s).phase = "executed"
    /\ LET r == RegOf(s) IN
       /\ users' = users \cup {[id |-> NextId("users"), username |-> r.username,
                                password_hash |-> r.hashed, role |-> DefaultRole]}
       /\ sqlite_sequence' = [sqlite_sequence EXCEPT !["users"] = @ + 1]
       /\ registered' = registered @@
              (NextId("users") :> [username |-> r.username, password |-> r.password,
                                   role |-> DefaultRole])
       /\ session' = [session EXCEPT ![s].reg =
                         {[r EXCEPT !.phase = "returned", !.ret = TRUE]}]
       /\ last' = RegisterReturn(r, 1, TRUE)
    /\ UNCHANGED <<ai, tables, cyber_incidents, datasets_metadata, it_tickets>>

\* the Logout button of the login page, shown when somebody is logged in
logout(s) ==
    /\ session[s].page = "idle" /\ session[s].current_user # None
    /\ session' = [session EXCEPT ![s].current_user = None]
    /\ last' = [op |-> "logout", ret |-> None]
    /\ UNCHANGED <<ai, tables, users, cyber_incidents, datasets_metadata, it_tickets,
                   sqlite_sequence, registered>>

\* the prologue of a dashboard page without the call of require_auth
open_page_noAuth(s, p) ==
    /\ session[s].page = "idle"
    /\ session' = [session EXCEPT ![s].page = p]
    /\ tables' = CreateTableIfNotExists(tables, PageTable[p]).tables
    /\ last' = [op |-> PageService[p],
                ret |-> CreateTableIfNotExists(tables, PageTable[p]).ret]
    /\ UNCHANGED <<ai, users, cyber_incidents, datasets_metadata, it_tickets,
                   sqlite_sequence, registered>>

\* the prologue of a dashboard page: init_session, require_auth (which ends
\* the execution with st.stop() when nobody is logged in), then the
\* construction of the page's service
open_page(s, p) ==
    /\ session[s].page = "idle"
    /\ IF session[s].current_user = None
       THEN /\ last' = [op |-> "require_auth", page |-> p, ret |-> Raised("StopException")]
            /\ UNCHANGED <<session, tables>>
       ELSE /\ session' = [session EXCEPT ![s].page = p]
            /\ tables' = CreateTableIfNotExists(tables, PageTable[p]).tables
            /\ last' = [op |-> PageService[p],
                        ret |-> CreateTableIfNotExists(tables, PageTable[p]).ret]
    /\ UNCHANGED <<ai, users, cyber_incidents, datasets_metadata, it_tickets,
                   sqlite_sequence, registered>>

\* the end of a page execution: the script returns or calls st.rerun(), and
\* what the page body held is gone
rerun(s) ==
    /\ session[s].page \in Pages
    /\ session' = [session EXCEPT ![s].page = "idle", ![s].view = {}, ![s].wrote = {}]
    /\ last' = [op |-> "rerun", ret |-> None]
    /\ UNCHANGED <<ai, tables, users, cyber_incidents, datasets_metadata, it_tickets,
                   sqlite_sequence, registered>>

\* rows = serv.all() answered from the rows the page body holds already
page_all_incidents_cached(s) ==
    /\ session[s].page = "Cybersecurity"
    /\ "cyber_incidents" \in tables
    /\ \E res \in OrderByDesc(IF session[s].view # {} THEN session[s].view
                              ELSE cyber_incidents, "timestamp") :
          /\ last' = [op |-> "all_incidents", ret |-> res]
          /\ session' = [session EXCEPT ![s].view = {res[i] : i \in DOMAIN res}]
    /\ UNCHANGED <<ai, tables, users, cyber_incidents, datasets_metadata, it_tickets,
                   sqlite_sequence, registered>>

\* rows = serv.all() in the body of the Cybersecurity page
page_all_incidents(s) ==
    /\ session[s].page = "Cybersecurity"
    /\ "cyber_incidents" \in tables
    /\ \E res \in OrderByDesc(cyber_incidents, "timestamp") :
          /\ last' = [op |-> "all_incidents", ret |-> res]
          /\ session' = [session EXCEPT ![s].view = {res[i] : i \in DOMAIN res}]
    /\ UNCHANGED <<ai, tables, users, cyber_incidents, datasets_metadata, it_tickets,
                   sqlite_sequence, registered>>

\* the edit form of the Cybersecurity page: the incident is chosen among the
\* rows the page read, the field values are the ones the form holds
page_update_incident(s, id, a) ==
    /\ session[s].page = "Cybersecurity"
    /\ \E r \in session[s].view : r.id = id
    /\ update_incident_in(id, a, [session EXCEPT ![s].wrote = {[id |-> id, a |-> a]}])

\* the add form of the Cybersecurity page
page_create_incident(s, a) ==
    /\ session[s].page = "Cybersecurity"
    /\ create_incident(a)

\* the other calls the Cybersecurity page makes on its SecurityService: the
\* metrics and charts, the delete button (for a row the page read), the
\* sample-data button
page_incidents(s) ==
    /\ session[s].page = "Cybersecurity"
    /\ \/ incidents_total_count
       \/ incidents_open_count
       \/ severity_counts
       \/ category_counts
       \/ incidents_status_counts
       \/ \E r \in session[s].view : delete_incident(r.id)

\* the sample-data button of the Cybersecurity page
page_load_incidents(s, path) ==
    /\ session[s].page = "Cybersecurity"
    /\ load_csv_incidents(path)

\* the calls the Data Science page makes on its DatasetService
page_datasets(s) ==
    /\ session[s].page = "Data_Science"
    /\ \/ datasets_total_count
       \/ total_rows
       \/ all_datasets
       \/ \E a \in DatasetArgs : create_dataset(a)
       \/ \E id \in Ids, a \in DatasetArgs : update_dataset(id, a)
       \/ \E id \in Ids : delete_dataset(id)
       \/ \E path \in DOMAIN DatasetCsv : load_csv_datasets(path)

\* the add form of the IT Operations page
page_create_ticket(s, a) ==
    /\ session[s].page = "IT_Operations"
    /\ create_ticket(a)

\* the edit form of the IT Operations page
page_update_ticket(s, id, a) ==
    /\ session[s].page = "IT_Operations"
    /\ update_ticket(id, a)

\* the other calls the IT Operations page makes on its ITService
page_tickets(s) ==
    /\ session[s].page = "IT_Operations"
    /\ \/ tickets_total_count
       \/ tickets_open_count
       \/ avg_resolution_time
       \/ all_tickets
       \/ tickets_status_counts
       \/ priority_counts
       \/ assignee_summary
       \/ slowest_assignee
       \/ \E id \in Ids : delete_ticket(id)
       \/ \E path \in DOMAIN TicketCsv : load_csv_tickets(path)

----------------------------------------------------------------------------
(* The advisory assistant (services/ai_assistant.py) *)

\* ai before any AIAssistant has been constructed
NoAssistant == [t |-> "none"]

\* Python truthiness of an Optional[str]: None and '' are falsy
FalsyOpt(x) == x = None \/ x.v = <<>>

\* a or b on Optional[str] values
Or(a, b) == IF FalsyOpt(a) THEN b ELSE a

\* api_key arguments of AIAssistant(...)
ApiKeyArgs == {None, Str(<<>>), Str(<<107>>)}

\* st.secrets: no secrets file, a file without the key, a file with the key
SecretsFiles == {[file |-> FALSE, key |-> None], [file |-> TRUE, key |-> None],
                 [file |-> TRUE, key |-> Str(<<>>)], [file |-> TRUE, key |-> Str(<<115>>)]}

\* values of the environment variables GEMINI_API_KEY and GOOGLE_API_KEY
EnvValues == {None, Str(<<101>>)}

\* the key __init__ settles on: the argument, else the secret, else the
\* environment; "gemini_api_key" in st.secrets raises FileNotFoundError
\* when there is no secrets file
resolveApiKey(api_key, secrets, gemini, google) ==
    IF ~FalsyOpt(api_key) THEN api_key
    ELSE IF ~secrets.file THEN Raised("FileNotFoundError")
    ELSE IF secrets.key # None THEN secrets.key
    ELSE Or(gemini, google)

\* AIAssistant.__init__: sdk says whether google.genai was imported, ctor
\* whether genai.Client(api_key=...) returned
AIAssistant_init(api_key, secrets, gemini, google, sdk, ctor) ==
    LET key == resolveApiKey(api_key, secrets, gemini, google) IN
    /\ IF key = Raised("FileNotFoundError")
       THEN /\ last' = [op |-> "AIAssistant", ret |-> key]
            /\ UNCHANGED ai
       ELSE /\ ai' = [t |-> "AIAssistant", api_key |-> key,
                      client |-> IF sdk /\ ~FalsyOpt(key) /\ ctor
                                 THEN "Client" ELSE "None",
                      enabled |-> sdk /\ ~FalsyOpt(key) /\ ctor]
            /\ last' = [op |-> "AIAssistant", ret |-> None]
    /\ UNCHANGED <<session, tables, users, cyber_incidents, datasets_metadata, it_tickets,
                   sqlite_sequence, registered>>

\* prompts given to ask
Prompts == {Str(<<>>), Str(<<32>>), Str(<<32, 32>>), Str(<<104>>), Str(<<32, 119, 32>>)}

\* "Empty prompt provided."
EmptyPromptText == Str(<<69, 109, 112, 116, 121>>)

\* the guidance text returned when the assistant is not configured
\* ("AI assistant is not configured. ...", written by its first two letters)
GuidanceText == Str(<<65, 73>>)

\* "Error generating response: " (written "Error: ")
ErrorPrefix == <<69, 114, 114, 111, 114, 58, 32>>

\* str(response) of a response that is a dict or another object: its repr
ReprText == Str(<<60, 62>>)

\* what client.models.generate_content does: it raises with a message, or
\* returns an object with a text attribute (a str, or None when the response
\* carries no text part), a dict, or an object without a text attribute
ProviderOutcomes ==
    {[kind |-> "raise", msg |-> m] : m \in {<<>>, <<53, 48, 51>>}}
    \cup {[kind |-> "object", text |-> x] :
              x \in {None, Str(<<>>), Str(<<111, 107>>), Str(<<32>>)}}
    \cup {[kind |-> "dict", text |-> x, output |-> y] :
              x \in {None, Str(<<>>), Str(<<116>>)}, y \in {None, Str(<<117>>)}}
    \cup {[kind |-> "other"]}

\* the provider is not called
NotCalled == [kind |-> "notcalled"]

\* whether ask reaches the provider call
Calls(a, prompt) ==
    /\ ~(Falsy(prompt) \/ rstrip(lstrip(prompt.v)) = <<>>)
    /\ a.enabled /\ a.client # "None"

\* the value AIAssistant.ask(prompt) returns
askResult(a, prompt, outcome) ==
    IF Falsy(prompt) \/ rstrip(lstrip(prompt.v)) = <<>> THEN EmptyPromptText
    ELSE IF ~a.enabled \/ a.client = "None" THEN GuidanceText
    ELSE IF outcome.kind = "raise" THEN Str(ErrorPrefix \o outcome.msg)
    ELSE IF outcome.kind = "object" THEN outcome.text
    ELSE IF outcome.kind = "dict" THEN Or(outcome.text, Or(outcome.output, ReprText))
    ELSE ReprText

\* AIAssistant.ask
ask(prompt, outcome) ==
    /\ ai # NoAssistant
    /\ last' = [op |-> "ask", prompt |-> prompt,
                provider |-> IF Calls(ai, prompt) THEN outcome ELSE NotCalled,
                ret |-> askResult(ai, prompt, outcome)]
    /\ UNCHANGED <<session, ai, tables, users, cyber_incidents, datasets_metadata,
                   it_tickets, sqlite_sequence, registered>>

----------------------------------------------------------------------------
(* Specification *)

\* The store file after every manager has been constructed once (as
\* scripts/init_db.py does): the four tables exist.  The record tables are
\* empty; the users table is empty or holds a row left by an earlier tool.
Init ==
    /\ tables = TableNames
    /\ users \in {{}, {LegacyRow}}
    /\ sqlite_sequence = [t \in TableNames |-> IF t = "users" THEN Cardinality(users) ELSE 0]
    /\ cyber_incidents = {}
    /\ datasets_metadata = {}
    /\ it_tickets = {}
    /\ registered = <<>>
    /\ session = [s \in Sessions |-> InitSession]
    /\ ai = NoAssistant
    /\ last = [op |-> "none", ret |-> None]

\* calls on the Authentication Manager
NextAuth ==
    \/ AuthManager_init
    \/ \E c \in RegisterCalls : register(c[1], c[2], c[3])
    \/ \E c \in LoginCalls : login(c[1], c[2])

\* construction, create, update, delete and all() of the three units
NextCrud ==
    \/ SecurityService_init
    \/ \E a \in IncidentArgs : create_incident(a)
    \/ \E id \in Ids, a \in IncidentArgs : update_incident(id, a)
    \/ \E id \in Ids : delete_incident(id)
    \/ all_incidents
    \/ DatasetService_init
    \/ \E a \in DatasetArgs : create_dataset(a)
    \/ \E id \in Ids, a \in DatasetArgs : update_dataset(id, a)
    \/ \E id \in Ids : delete_dataset(id)
    \/ all_datasets
    \/ ITService_init
    \/ \E a \in TicketArgs : create_ticket(a)
    \/ \E id \in Ids, a \in TicketArgs : update_ticket(id, a)
    \/ \E id \in Ids : delete_ticket(id)
    \/ all_tickets

\* bulk import and the aggregate queries of the three units
NextBulkAndQueries ==
    \/ \E path \in DOMAIN IncidentCsv : load_csv_incidents(path)
    \/ incidents_total_count
    \/ incidents_open_count
    \/ category_counts
    \/ severity_counts
    \/ incidents_status_counts
    \/ \E path \in DOMAIN DatasetCsv : load_csv_datasets(path)
    \/ datasets_total_count
    \/ total_rows
    \/ uploader_summary
    \/ \E path \in DOMAIN TicketCsv : load_csv_tickets(path)
    \/ tickets_total_count
    \/ tickets_open_count
    \/ avg_resolution_time
    \/ priority_counts
    \/ tickets_status_counts
    \/ assignee_summary
    \/ slowest_assignee

Next == NextAuth \/ NextCrud \/ NextBulkAndQueries

\* every call of the store layer, in any order
Spec == Init /\ [][Next]_vars

\* the Authentication Manager used on its own
SpecAuth == Init /\ [][NextAuth]_vars

\* the three Record Access units used for create, update, delete and all()
SpecCrud == Init /\ [][NextCrud]_vars

\* calls on the three Record Access units
NextRecords == NextCrud \/ NextBulkAndQueries

\* the three Record Access units used on their own: create, update, delete,
\* all(), bulk import and the aggregate queries
SpecRecords == Init /\ [][NextRecords]_vars

\* the calls that write: register, and create, update, delete and bulk import
\* of the three Record Access units
NextWrites ==
    \/ \E c \in RegisterCalls : register(c[1], c[2], c[3])
    \/ \E a \in IncidentArgs : create_incident(a)
    \/ \E id \in Ids, a \in IncidentArgs : update_incident(id, a)
    \/ \E id \in Ids : delete_incident(id)
    \/ \E path \in DOMAIN IncidentCsv : load_csv_incidents(path)
    \/ \E a \in DatasetArgs : create_dataset(a)
    \/ \E id \in Ids, a \in DatasetArgs : update_dataset(id, a)
    \/ \E id \in Ids : delete_dataset(id)
    \/ \E path \in DOMAIN DatasetCsv : load_csv_datasets(path)
    \/ \E a \in TicketArgs : create_ticket(a)
    \/ \E id \in Ids, a \in TicketArgs : update_ticket(id, a)
    \/ \E id \in Ids : delete_ticket(id)
    \/ \E path \in DOMAIN TicketCsv : load_csv_tickets(path)

\* the writing calls of the store layer, in any order
SpecWrites == Init /\ [][NextWrites]_vars

\* construction of the assistant and calls of ask
NextAssistant ==
    \/ \E api_key \in ApiKeyArgs, secrets \in SecretsFiles, gemini \in EnvValues,
          google \in EnvValues, sdk \in BOOLEAN, ctor \in BOOLEAN :
          AIAssistant_init(api_key, secrets, gemini, google, sdk, ctor)
    \/ \E prompt \in Prompts, outcome \in ProviderOutcomes : ask(prompt, outcome)

\* the advisory assistant used on its own
SpecAssistant == Init /\ [][NextAssistant]_vars

\* the buttons of the login page, pressed in either browser session
NextLogin ==
    \/ \E s \in Sessions, c \in LoginCalls : login_handler(s, c[1], c[2])
    \/ \E s \in Sessions, c \in FormRegisterCalls : register_handler(s, c[1], c[2])
    \/ \E s \in Sessions : logout(s)

\* the login page used from two browser sessions
SpecLogin == Init /\ [][NextLogin]_vars

\* register called from two browser sessions at once, step by step
NextRegisterRace ==
    \/ \E s \in Sessions, c \in FormRegisterCalls : register_begin(s, c[1], c[2])
    \/ \E s \in Sessions : register_execute(s)
    \/ \E s \in Sessions : register_commit(s)

\* two browser sessions registering at the same time
SpecRegisterRace == Init /\ [][NextRegisterRace]_vars

\* the login page and the three dashboard pages, used from one browser
\* session
NextPages ==
    \/ \E c \in LoginCalls : login_handler(1, c[1], c[2])
    \/ \E c \in FormRegisterCalls : register_handler(1, c[1], c[2])
    \/ logout(1)
    \/ \E p \in Pages : open_page(1, p)
    \/ rerun(1)
    \/ page_all_incidents(1)
    \/ \E a \in IncidentArgs : page_create_incident(1, a)
    \/ \E id \in Ids, a \in IncidentArgs : page_update_incident(1, id, a)
    \/ page_incidents(1)
    \/ \E path \in DOMAIN IncidentCsv : page_load_incidents(1, path)
    \/ page_datasets(1)
    \/ \E a \in TicketArgs : page_create_ticket(1, a)
    \/ \E id \in Ids, a \in TicketArgs : page_update_ticket(1, id, a)
    \/ page_tickets(1)

\* every page of the application, used from one browser session
SpecPages == Init /\ [][NextPages]_vars

\* the store after the user 'a' has registered, with both browser sessions
\* logged in as that user
InitEdit ==
    LET row == [id |-> 1, username |-> Str(<<97>>),
                password_hash |-> hashpw(encode(Str(<<112>>)), 46),
                role |-> DefaultRole]
    IN
    /\ tables = TableNames
    /\ users = {row}
    /\ sqlite_sequence = [t \in TableNames |-> IF t = "users" THEN 1 ELSE 0]
    /\ cyber_incidents = {}
    /\ datasets_metadata = {}
    /\ it_tickets = {}
    /\ registered = (1 :> [username |-> Str(<<97>>), password |-> Str(<<112>>),
                           role |-> DefaultRole])
    /\ session = [s \in Sessions |-> [InitSession EXCEPT !.current_user = UserIdentity(row)]]
    /\ ai = NoAssistant
    /\ last = [op |-> "none", ret |-> None]

\* the Cybersecurity page, and the add and edit forms of the IT Operations
\* page, used from two browser sessions at once
NextEdit ==
    \/ \E s \in Sessions, p \in {"Cybersecurity", "IT_Operations"} : open_page(s, p)
    \/ \E s \in Sessions, a \in TicketArgs : page_create_ticket(s, a)
    \/ \E s \in Sessions, id \in Ids, a \in TicketArgs : page_update_ticket(s, id, a)
    \/ \E s \in Sessions : rerun(s)
    \/ \E s \in Sessions : page_all_incidents(s)
    \/ \E s \in Sessions, a \in IncidentArgs : page_create_incident(s, a)
    \/ \E s \in Sessions, id \in Ids, a \in IncidentArgs : page_update_incident(s, id, a)
    \/ \E s \in Sessions : page_incidents(s)

\* two logged-in browser sessions reading and editing at the same time
SpecEdit == InitEdit /\ [][NextEdit]_vars

\* a store file that no manager has been constructed on yet: no table
InitFresh ==
    /\ tables = {}
    /\ users = {}
    /\ cyber_incidents = {}
    /\ datasets_metadata = {}
    /\ it_tickets = {}
    /\ sqlite_sequence = [t \in TableNames |-> 0]
    /\ registered = <<>>
    /\ session = [s \in Sessions |-> InitSession]
    /\ ai = NoAssistant
    /\ last = [op |-> "none", ret |-> None]

\* construction of the managers, and the calls that put rows in their tables
NextConstruct ==
    \/ AuthManager_init
    \/ SecurityService_init
    \/ DatasetService_init
    \/ ITService_init
    \/ \E c \in RegisterCalls : register(c[1], c[2], c[3])
    \/ \E a \in IncidentArgs : create_incident(a)
    \/ \E a \in DatasetArgs : create_dataset(a)
    \/ \E a \in TicketArgs : create_ticket(a)

\* managers constructed in any order and any number of times, from a fresh
\* store file on
SpecConstruct == InitFresh /\ [][NextConstruct]_vars

----------------------------------------------------------------------------
(* Properties of the Authentication Manager *)

\* the rows of the users table with the given username
UserRows(rows, username) == {r \in rows : r.username = username}

\* the empty string
Empty(s) == s.v = <<>>

\* the last call was register or login with both arguments non-empty
ValidCall(l, op) == l.op = op /\ ~Empty(l.username) /\ ~Empty(l.password)

\* C1: a register call with non-empty arguments returns true exactly when
\* there was no row for its username, so the first of two calls for a new
\* username returns true and the second false; after either call the table
\* holds exactly one row with that username.
C1_RegisterTwice ==
    [][ValidCall(last', "register") =>
          /\ last'.ret = (UserRows(users, last'.username) = {})
          /\ Cardinality(UserRows(users', last'.username)) = 1]_vars

\* C1 witness: a second register for a username that register created has
\* returned false, and one row holds that username.
C1_Witness ==
    /\ ValidCall(last, "register")
    /\ last.ret = FALSE
    /\ \E r \in users : r.id \in DOMAIN registered /\ r.username = last.username
    /\ Cardinality(UserRows(users, last.username)) = 1

\* C2: login with the username and password of a register call that returned
\* true returns the identity of that row: exactly the fields id, username and
\* role, the role being the one given at registration, and nothing of the
\* stored credential.
C2_LoginAfterRegister ==
    \A id \in DOMAIN registered :
        (/\ ValidCall(last, "login")
         /\ registered[id].username = last.username
         /\ registered[id].password = last.password)
        => /\ DOMAIN last.ret = {"id", "username", "role"}
           /\ last.ret.id = id
           /\ last.ret.username = registered[id].username
           /\ last.ret.role = registered[id].role
           /\ "password_hash" \notin DOMAIN last.ret

\* C2 witness: a login has returned the identity of a registered row.
C2_Witness ==
    /\ last.op = "login"
    /\ last.ret # None
    /\ \E id \in DOMAIN registered :
           registered[id].username = last.username /\ registered[id].role = last.ret.role

\* C3: login returns None when no row has the username, when the row was
\* registered with another password, and when the stored credential is not
\* a hash bcrypt can verify against.
C3_LoginFailuresAlike ==
    ValidCall(last, "login") =>
        /\ UserRows(users, last.username) = {} => last.ret = None
        /\ \A r \in UserRows(users, last.username) :
               /\ (r.id \in DOMAIN registered /\ registered[r.id].password # last.password)
                      => last.ret = None
               /\ (r.password_hash.t # "bytes" \/ ~ValidSalt(r.password_hash))
                      => last.ret = None

\* C3 witness: login for a username whose stored credential is malformed has
\* returned None.
C3_Witness ==
    /\ ValidCall(last, "login")
    /\ last.ret = None
    /\ \E r \in UserRows(users, last.username) : ~ValidSalt(r.password_hash)

\* login for a username that has no row has returned None
C3_WitnessUnknown ==
    ValidCall(last, "login") /\ last.ret = None /\ UserRows(users, last.username) = {}

\* login with another password than the registered one has returned None
C3_WitnessWrongPassword ==
    /\ ValidCall(last, "login")
    /\ last.ret = None
    /\ \E r \in UserRows(users, last.username) :
           r.id \in DOMAIN registered /\ registered[r.id].password # last.password

\* C4: a register or login call with an empty username or an empty password
\* returns false (register) or None (login) and leaves the users table as
\* it was.
C4_EmptyArguments ==
    [][(last'.op \in {"register", "login"}
            /\ (Empty(last'.username) \/ Empty(last'.password)))
       => /\ users' = users
          /\ last'.op = "register" => last'.ret = FALSE
          /\ last'.op = "login" => last'.ret = None]_vars

\* C4 witness: register with an empty password has returned false on a
\* table that holds a row.
C4_Witness ==
    /\ last.op = "register"
    /\ Empty(last.password)
    /\ last.ret = FALSE
    /\ users # {}

\* C5: no two rows of users have the same username, and the credential of a
\* row made by register is not the password that call was given, neither as
\* text nor encoded.
C5_UniqueAndHashed ==
    /\ \A r1, r2 \in users : r1.username = r2.username => r1 = r2
    /\ \A r \in users : r.id \in DOMAIN registered =>
           /\ r.password_hash.v # registered[r.id].password.v
           /\ r.password_hash.v # encode(registered[r.id].password).v

\* C5 witness: two rows, one of them made by register, after a register call
\* for a username in use.
C5_Witness ==
    /\ Cardinality(users) >= 2
    /\ \E r \in users : r.id \in DOMAIN registered
    /\ last.op = "register" /\ last.ret = FALSE /\ ~Empty(last.username)

\* C6: a row of users made by register is in the table, unchanged, after
\* every later call of the Authentication Manager and of the three units.
C6_UserRowsKept ==
    [][\A r \in users : r.id \in DOMAIN registered => r \in users']_vars

\* C6 witness: a row made by register is in the table after an update of a
\* ticket that exists.
C6_Witness ==
    /\ \E r \in users : r.id \in DOMAIN registered
    /\ last.op = "update_ticket" /\ last.ret = None /\ last.hit

\* C7 as claimed: the role of every row of users is 'user' or 'admin', and a
\* register call that gives no role stores 'user'.
C7_RoleEnumerated ==
    /\ \A r \in users : r.role \in {"user", "admin"}
    /\ (last.op = "register" /\ last.ret = TRUE /\ last.roleArg = "default")
           => \A r \in UserRows(users, last.username) : r.role = "user"

----------------------------------------------------------------------------
(* Properties of the Record Access units *)

\* the records of a result of all()
Range(s) == {s[i] : i \in DOMAIN s}

\* whatever all() returned before and returns after: one record more, the
\* new record among them, every earlier record still there
CreateShown(before, after, key, new) ==
    \A b \in OrderByDesc(before, key), a \in OrderByDesc(after, key) :
        /\ Len(a) = Len(b) + 1
        /\ new \in Range(a) /\ new \notin Range(b)
        /\ Range(b) \subseteq Range(a)

\* C8: after a create call that returned, all() of the unit returns one record
\* more than before; the new record carries the arguments, the declared
\* numeric ones converted by int(); the records returned before are returned
\* unchanged.
C8_CreateThenAll ==
    [][/\ \A a \in IncidentArgs : (last'.op = "create_incident"
                   /\ create_incident(a) /\ last'.ret = None) =>
              CreateShown(cyber_incidents, cyber_incidents', "timestamp",
                  [id |-> last'.id, incident_id |-> int(a.incident_id),
                   timestamp |-> a.timestamp, severity |-> a.severity,
                   category |-> a.category, status |-> a.status,
                   description |-> a.description])
       /\ \A a \in DatasetArgs : (last'.op = "create_dataset"
                   /\ create_dataset(a) /\ last'.ret = None) =>
              CreateShown(datasets_metadata, datasets_metadata', "upload_date",
                  [id |-> last'.id, dataset_id |-> int(a.dataset_id), name |-> a.name,
                   rows |-> int(a.rows), columns |-> int(a.columns),
                   uploaded_by |-> a.uploaded_by, upload_date |-> a.upload_date])
       /\ \A a \in TicketArgs : (last'.op = "create_ticket"
                   /\ create_ticket(a) /\ last'.ret = None) =>
              CreateShown(it_tickets, it_tickets', "created_at",
                  [id |-> last'.id, ticket_id |-> int(a.ticket_id),
                   priority |-> a.priority, description |-> a.description,
                   status |-> a.status, assigned_to |-> a.assigned_to,
                   created_at |-> a.created_at,
                   resolution_time_hours |-> int(a.resolution_time_hours)])]_vars

\* C8 witness: create_dataset was given rows = 12.5 and columns = '4' on a
\* table that held a record; the new record has rows = 12 and columns = 4.
C8_Witness ==
    /\ last.op = "create_dataset" /\ last.ret = None
    /\ Cardinality(datasets_metadata) = 2
    /\ \E r \in datasets_metadata : r.id = last.id /\ r.rows = 12 /\ r.columns = 4

\* whatever all() returned before and returns after: as many records, one of
\* them with the id and it is the new record, every record with another id
\* still there
UpdateShown(before, after, key, id, new) ==
    \A b \in OrderByDesc(before, key), a \in OrderByDesc(after, key) :
        /\ Len(a) = Len(b)
        /\ {r \in Range(a) : r.id = id} = {new}
        /\ new.id = id
        /\ \A r \in Range(b) : r.id # id => r \in Range(a)

\* C9: after an update call for an id that exists, all() of the unit returns
\* as many records as before, exactly one with that id, which carries the new
\* arguments (numeric ones converted by int()), and every other record
\* unchanged.
C9_UpdateThenAll ==
    [][/\ \A id \in Ids, a \in IncidentArgs :
              (last'.op = "update_incident"
                   /\ update_incident(id, a) /\ last'.ret = None
                   /\ \E r \in cyber_incidents : r.id = id) =>
              UpdateShown(cyber_incidents, cyber_incidents', "timestamp", id,
                  [id |-> id, incident_id |-> int(a.incident_id),
                   timestamp |-> a.timestamp, severity |-> a.severity,
                   category |-> a.category, status |-> a.status,
                   description |-> a.description])
       /\ \A id \in Ids, a \in DatasetArgs :
              (last'.op = "update_dataset"
                   /\ update_dataset(id, a) /\ last'.ret = None
                   /\ \E r \in datasets_metadata : r.id = id) =>
              UpdateShown(datasets_metadata, datasets_metadata', "upload_date", id,
                  [id |-> id, dataset_id |-> int(a.dataset_id), name |-> a.name,
                   rows |-> int(a.rows), columns |-> int(a.columns),
                   uploaded_by |-> a.uploaded_by, upload_date |-> a.upload_date])
       /\ \A id \in Ids, a \in TicketArgs :
              (last'.op = "update_ticket"
                   /\ update_ticket(id, a) /\ last'.ret = None
                   /\ \E r \in it_tickets : r.id = id) =>
              UpdateShown(it_tickets, it_tickets', "created_at", id,
                  [id |-> id, ticket_id |-> int(a.ticket_id),
                   priority |-> a.priority, description |-> a.description,
                   status |-> a.status, assigned_to |-> a.assigned_to,
                   created_at |-> a.created_at,
                   resolution_time_hours |-> int(a.resolution_time_hours)])]_vars

\* C9 witness: update_incident has replaced one of two incidents that differ.
C9_Witness ==
    /\ last.op = "update_incident" /\ last.ret = None /\ last.hit
    /\ Cardinality(cyber_incidents) = 2
    /\ \E r1, r2 \in cyber_incidents : r1.id = last.id /\ r2.id # last.id
           /\ r1.description # r2.description

\* whatever all() returned before and returns after: one record fewer, none
\* with the id, every record with another id still there
DeleteShown(before, after, key, id) ==
    \A b \in OrderByDesc(before, key), a \in OrderByDesc(after, key) :
        /\ Len(a) = Len(b) - 1
        /\ \A r \in Range(a) : r.id # id
        /\ \A r \in Range(b) : r.id # id => r \in Range(a)
        /\ Range(a) \subseteq Range(b)

\* C10: after a delete call for an id that exists, all() of the unit returns
\* no record with that id and every other record unchanged: one record fewer.
C10_DeleteThenAll ==
    [][/\ \A id \in Ids : (last'.op = "delete_incident"
                   /\ delete_incident(id) /\ \E r \in cyber_incidents : r.id = id) =>
              DeleteShown(cyber_incidents, cyber_incidents', "timestamp", id)
       /\ \A id \in Ids : (last'.op = "delete_dataset"
                   /\ delete_dataset(id) /\ \E r \in datasets_metadata : r.id = id) =>
              DeleteShown(datasets_metadata, datasets_metadata', "upload_date", id)
       /\ \A id \in Ids : (last'.op = "delete_ticket"
                   /\ delete_ticket(id) /\ \E r \in it_tickets : r.id = id) =>
              DeleteShown(it_tickets, it_tickets', "created_at", id)]_vars

\* C10 witness: delete_ticket has removed one of two tickets; the other one
\* is left.
C10_Witness ==
    /\ last.op = "delete_ticket" /\ last.hit
    /\ sqlite_sequence["it_tickets"] = 2
    /\ Cardinality(it_tickets) = 1
    /\ \A r \in it_tickets : r.id # last.id

\* C11: update and delete given an id that no row of the table has (an id
\* never assigned, or one whose row was deleted since) return without an
\* error and leave the table as it was; update makes no row.
C11_MissingIdNoOp ==
    [][/\ \A id \in Ids, a \in IncidentArgs :
              (last'.op = "update_incident"
                   /\ update_incident(id, a) /\ ~intRaises(a.incident_id)
                   /\ ~\E r \in cyber_incidents : r.id = id) =>
              (last'.ret = None /\ cyber_incidents' = cyber_incidents)
       /\ \A id \in Ids, a \in DatasetArgs :
              (last'.op = "update_dataset"
                   /\ update_dataset(id, a) /\ ~intRaises(a.dataset_id) /\ ~intRaises(a.rows)
                   /\ ~intRaises(a.columns) /\ ~\E r \in datasets_metadata : r.id = id) =>
              (last'.ret = None /\ datasets_metadata' = datasets_metadata)
       /\ \A id \in Ids, a \in TicketArgs :
              (last'.op = "update_ticket"
                   /\ update_ticket(id, a) /\ ~intRaises(a.ticket_id)
                   /\ ~intRaises(a.resolution_time_hours)
                   /\ ~\E r \in it_tickets : r.id = id) =>
              (last'.ret = None /\ it_tickets' = it_tickets)
       /\ \A id \in Ids : (last'.op = "delete_incident"
                   /\ delete_incident(id) /\ ~\E r \in cyber_incidents : r.id = id) =>
              (last'.ret = None /\ cyber_incidents' = cyber_incidents)
       /\ \A id \in Ids : (last'.op = "delete_dataset"
                   /\ delete_dataset(id) /\ ~\E r \in datasets_metadata : r.id = id) =>
              (last'.ret = None /\ datasets_metadata' = datasets_metadata)
       /\ \A id \in Ids : (last'.op = "delete_ticket"
                   /\ delete_ticket(id) /\ ~\E r \in it_tickets : r.id = id) =>
              (last'.ret = None /\ it_tickets' = it_tickets)]_vars

\* C11 witness: update_dataset was given the id of a row that had been
\* deleted; another dataset is in the table.
C11_Witness ==
    /\ last.op = "update_dataset" /\ last.ret = None /\ ~last.hit
    /\ sqlite_sequence["datasets_metadata"] >= last.id
    /\ datasets_metadata # {}

\* the result of all(): every row of the table once, and of two adjacent
\* records the earlier one's key is not less than the later one's
NewestFirst(ret, rows, key) ==
    /\ Len(ret) = Cardinality(rows)
    /\ Range(ret) = rows
    /\ \A i \in 1..(Len(ret) - 1) : ~TextLess(ret[i][key].v, ret[i + 1][key].v)

\* C12: all() returns every row of the unit's table exactly once, in
\* non-increasing order of timestamp (incidents), upload_date (datasets),
\* created_at (tickets).
C12_AllNewestFirst ==
    /\ last.op = "all_incidents" => NewestFirst(last.ret, cyber_incidents, "timestamp")
    /\ last.op = "all_datasets" => NewestFirst(last.ret, datasets_metadata, "upload_date")
    /\ last.op = "all_tickets" => NewestFirst(last.ret, it_tickets, "created_at")

\* C12 witness: all() of the incidents has returned two records with
\* different timestamps.
C12_Witness ==
    /\ last.op = "all_incidents" /\ Len(last.ret) = 2
    /\ last.ret[1].timestamp # last.ret[2].timestamp

----------------------------------------------------------------------------
(* Properties of bulk import *)

\* the column names of a parameter tuple
Columns(cols) == {cols[i] : i \in DOMAIN cols}

\* a source that exists, has every column of the unit, and in whose records
\* every declared numeric field is one int() accepts
WellFormed(source, cols, intCols) ==
    /\ source.exists
    /\ Columns(cols) \subseteq source.header
    /\ \A i \in DOMAIN source.records : \A c \in intCols : ~intRaises(source.records[i][c])

\* a record of the source as the table is to hold it
Stored(rec, cols, intCols) ==
    [c \in Columns(cols) |-> IF c \in intCols THEN int(rec[c]) ELSE rec[c]]

\* the table after holds the rows it held before and, for the n records of
\* the source, n rows more: one per record
ImportShown(before, after, source, cols, intCols) ==
    /\ before \subseteq after
    /\ Cardinality(after) = Cardinality(before) + Len(source.records)
    /\ \E s \in Listings(after \ before) :
           /\ Len(s) = Len(source.records)
           /\ \A i \in DOMAIN s :
                  [c \in Columns(cols) |-> s[i][c]] = Stored(source.records[i], cols, intCols)

\* C13: load_csv of a well-formed source of n records returns and adds n rows
\* to the table, one per record with the declared numeric fields as integers;
\* the rows that were there are unchanged.  The same holds when the source was
\* imported before: n rows more.
C13_BulkImportAddsAll ==
    [][/\ (last'.op = "load_csv_incidents"
              /\ WellFormed(IncidentCsv[last'.path], incidentCols, {"incident_id"})) =>
              /\ last'.ret = None
              /\ ImportShown(cyber_incidents, cyber_incidents', IncidentCsv[last'.path], incidentCols, {"incident_id"})
       /\ (last'.op = "load_csv_datasets"
              /\ WellFormed(DatasetCsv[last'.path], datasetCols, {"dataset_id", "rows", "columns"})) =>
              /\ last'.ret = None
              /\ ImportShown(datasets_metadata, datasets_metadata', DatasetCsv[last'.path], datasetCols, {"dataset_id", "rows", "columns"})
       /\ (last'.op = "load_csv_tickets"
              /\ WellFormed(TicketCsv[last'.path], ticketCols, {"ticket_id", "resolution_time_hours"})) =>
              /\ last'.ret = None
              /\ ImportShown(it_tickets, it_tickets', TicketCsv[last'.path], ticketCols, {"ticket_id", "resolution_time_hours"})]_vars

\* C13 witness: the one-record ticket source has been imported twice; the
\* table holds two rows for its record, with resolution_time_hours 2.5 as 2.
C13_Witness ==
    /\ last.op = "load_csv_tickets" /\ last.path = "one" /\ last.ret = None
    /\ Cardinality({r \in it_tickets : r.ticket_id = 33 /\ r.resolution_time_hours = 2}) = 2

\* C14 as claimed: load_csv of a source that does not exist, or whose header
\* lacks a column of the unit, raises and leaves the table as it was.
C14_MissingSourceFails ==
    [][/\ (last'.op = "load_csv_incidents"
              /\ (~IncidentCsv[last'.path].exists
                     \/ ~(Columns(incidentCols) \subseteq IncidentCsv[last'.path].header))) =>
              (last'.ret.t = "raise" /\ cyber_incidents' = cyber_incidents)
       /\ (last'.op = "load_csv_datasets"
              /\ (~DatasetCsv[last'.path].exists
                     \/ ~(Columns(datasetCols) \subseteq DatasetCsv[last'.path].header))) =>
              (last'.ret.t = "raise" /\ datasets_metadata' = datasets_metadata)
       /\ (last'.op = "load_csv_tickets"
              /\ (~TicketCsv[last'.path].exists
                     \/ ~(Columns(ticketCols) \subseteq TicketCsv[last'.path].header))) =>
              (last'.ret.t = "raise" /\ it_tickets' = it_tickets)]_vars

\* C15 as claimed: when load_csv raises, the table is as it was before the
\* call: no record of the source is in it.
C15_BulkImportAtomic ==
    [][/\ (last'.op = "load_csv_incidents" /\ last'.ret.t = "raise") => cyber_incidents' = cyber_incidents
       /\ (last'.op = "load_csv_datasets" /\ last'.ret.t = "raise") => datasets_metadata' = datasets_metadata
       /\ (last'.op = "load_csv_tickets" /\ last'.ret.t = "raise") => it_tickets' = it_tickets]_vars

----------------------------------------------------------------------------
(* Properties of the aggregate queries *)

\* a grouped-count result for column col: an entry for every value that
\* occurs and for no other, one entry per value, each with the number of rows
\* of its value; the counts add up to the number of rows
GroupedCounts(ret, rows, col) ==
    /\ \A e \in ret : e.cnt > 0 /\ e.cnt = Cardinality({r \in rows : r[col] = e[col]})
    /\ \A r \in rows : \E e \in ret : e[col] = r[col]
    /\ \A e1, e2 \in ret : e1[col] = e2[col] => e1 = e2
    /\ Sum(ret, "cnt") = Cardinality(rows)

\* C16: severity_counts, category_counts and status_counts of the incidents,
\* priority_counts and status_counts of the tickets return one entry per
\* value that occurs in the grouping column, none for other values, each with
\* the number of rows of that value; the counts sum to total_count().
C16_GroupedCounts ==
    /\ last.op = "severity_counts" => GroupedCounts(last.ret, cyber_incidents, "severity")
    /\ last.op = "category_counts" => GroupedCounts(last.ret, cyber_incidents, "category")
    /\ last.op = "incidents_status_counts" =>
           GroupedCounts(last.ret, cyber_incidents, "status")
    /\ last.op = "priority_counts" => GroupedCounts(last.ret, it_tickets, "priority")
    /\ last.op = "tickets_status_counts" => GroupedCounts(last.ret, it_tickets, "status")

\* C16 witness: severity_counts has returned two entries for two incidents of
\* different severity.
C16_Witness ==
    /\ last.op = "severity_counts"
    /\ Cardinality(last.ret) = 2 /\ Cardinality(cyber_incidents) = 2

\* the open count of a table: the number of its rows with status 'Open' or
\* 'In Progress', which is at most the number of its rows
OpenCount(ret, rows) ==
    /\ ret = Cardinality({r \in rows : r.status = "Open" \/ r.status = "In Progress"})
    /\ ret <= Cardinality(rows)

\* C17: open_count() of the incidents and of the tickets is the number of rows
\* whose status is 'Open' or 'In Progress'; rows of another status are not
\* counted; open_count() <= total_count().
C17_OpenCount ==
    /\ last.op = "incidents_open_count" => OpenCount(last.ret, cyber_incidents)
    /\ last.op = "tickets_open_count" => OpenCount(last.ret, it_tickets)

\* C17 witness: open_count of the tickets is 1 for a ticket 'In Progress' and
\* a ticket 'Resolved'.
C17_Witness ==
    /\ last.op = "tickets_open_count" /\ last.ret = 1
    /\ \E r1, r2 \in it_tickets : r1.status = "In Progress" /\ r2.status = "Resolved"

\* the operations that only query the store
ReadOps ==
    {"login", "all_incidents", "all_datasets", "all_tickets",
     "incidents_total_count", "incidents_open_count", "category_counts",
     "severity_counts", "incidents_status_counts",
     "datasets_total_count", "total_rows", "uploader_summary",
     "tickets_total_count", "tickets_open_count", "avg_resolution_time",
     "priority_counts", "tickets_status_counts", "assignee_summary", "slowest_assignee"}

\* C18: all(), the counts, the grouped queries, total_rows, uploader_summary,
\* avg_resolution_time, assignee_summary, slowest_assignee and login leave the
\* four tables as they were, whatever they return.
C18_QueriesReadOnly ==
    [][last'.op \in ReadOps =>
          /\ users' = users
          /\ cyber_incidents' = cyber_incidents
          /\ datasets_metadata' = datasets_metadata
          /\ it_tickets' = it_tickets
          /\ tables' = tables
          /\ sqlite_sequence' = sqlite_sequence]_vars

\* C18 witness: a login has succeeded on a store that holds an incident.
C18_Witness ==
    /\ last.op = "login" /\ last.ret # None
    /\ users # {} /\ cyber_incidents # {}

----------------------------------------------------------------------------
(* Properties of construction *)

\* the table each manager creates
TableOf ==
    [AuthManager |-> "users", SecurityService |-> "cyber_incidents",
     DatasetService |-> "datasets_metadata", ITService |-> "it_tickets"]

\* C19: constructing an AuthManager or a Record Access unit, on a fresh store
\* or on one that holds rows, for the first time or again, raises nothing,
\* leaves the manager's table defined and the other tables as they were, and
\* leaves every row of every table unchanged.
C19_ConstructionIdempotent ==
    [][last'.op \in DOMAIN TableOf =>
          /\ last'.ret = None
          /\ tables' = tables \cup {TableOf[last'.op]}
          /\ users' = users
          /\ cyber_incidents' = cyber_incidents
          /\ datasets_metadata' = datasets_metadata
          /\ it_tickets' = it_tickets
          /\ sqlite_sequence' = sqlite_sequence]_vars

\* C19 witness: a SecurityService has been constructed on a store whose
\* cyber_incidents table exists and holds a row.
C19_Witness ==
    /\ last.op = "SecurityService" /\ last.ret = None
    /\ cyber_incidents # {}

----------------------------------------------------------------------------
(* Properties of slowest_assignee *)

\* the tickets of an assignee
TicketsOf(k) == {r \in it_tickets : r.assigned_to = k}

\* the sum of the resolution times of a set of tickets
Hours(rows) == Sum(rows, "resolution_time_hours")

\* C20: slowest_assignee() returns the empty list when there is no ticket;
\* otherwise one entry (assignee, average): the average is the mean
\* resolution_time_hours of the assignee's tickets, and no assignee has a
\* greater mean.
C20_SlowestAssignee ==
    last.op = "slowest_assignee" =>
        IF it_tickets = {} THEN last.ret = <<>>
        ELSE /\ Len(last.ret) = 1
             /\ DOMAIN last.ret[1] = {"assigned_to", "avg_res"}
             /\ LET e == last.ret[1]
                    mine == TicketsOf(e.assigned_to)
                IN /\ mine # {}
                   /\ e.avg_res.den > 0
                   /\ e.avg_res.num * Cardinality(mine) = Hours(mine) * e.avg_res.den
                   /\ \A r \in it_tickets :
                          Hours(TicketsOf(r.assigned_to)) * Cardinality(mine)
                              <= Hours(mine) * Cardinality(TicketsOf(r.assigned_to))

\* C20 witness: of two assignees with different means, slowest_assignee has
\* returned the one with the greater mean.
C20_Witness ==
    /\ last.op = "slowest_assignee" /\ Len(last.ret) = 1
    /\ \E r \in it_tickets :
           /\ r.assigned_to # last.ret[1].assigned_to
           /\ Hours(TicketsOf(r.assigned_to)) * Cardinality(TicketsOf(last.ret[1].assigned_to))
                  < Hours(TicketsOf(last.ret[1].assigned_to))
                        * Cardinality(TicketsOf(r.assigned_to))

----------------------------------------------------------------------------
(* Further properties of the Authentication Manager *)

\* C23: after a register call that failed because the username was taken by
\* a registered user, a login with that username returns the identity made
\* by the first registration (its id and role) when given the first
\* registration's password, and None when given any other password, such as
\* the password of the failed call.
C23_FailedRegisterKeepsCredential ==
    [][\A id \in DOMAIN registered :
          (/\ ValidCall(last, "register") /\ last.ret = FALSE
           /\ registered[id].username = last.username
           /\ ValidCall(last', "login") /\ last'.username = last.username)
          => IF last'.password = registered[id].password
             THEN last'.ret = [id |-> id, username |-> last.username,
                               role |-> registered[id].role]
             ELSE last'.ret = None]_vars

\* C23 witness: a register call for a registered username, with another
\* password and another role than the first registration's, has failed.
C23_Witness ==
    /\ ValidCall(last, "register") /\ last.ret = FALSE
    /\ \E id \in DOMAIN registered :
           /\ registered[id].username = last.username
           /\ registered[id].password # last.password
           /\ \E r \in users : r.id = id /\ r.role # last.roleArg

----------------------------------------------------------------------------
(* Properties of the store-assigned ids *)

\* no two rows of the table have the same id
DistinctIds(rows) == \A r1, r2 \in rows : r1.id = r2.id => r1 = r2

\* a row whose id no row had before the step has an id greater than the
\* table's high-water mark before the step: greater than every id the table
\* has ever assigned
FreshIds(before, after, mark) ==
    \A r \in after : (\A q \in before : q.id # r.id) => r.id > mark

\* C26: in each record table the ids are pairwise distinct, also among rows
\* with the same external identifier; a create with an external identifier
\* that is in use returns and adds a row; and the id of a new row is greater
\* than every id the table has assigned before, so the id of a deleted row is
\* not given out again.
C26_IdsDistinctNeverReused ==
    [][/\ DistinctIds(cyber_incidents') /\ DistinctIds(datasets_metadata')
       /\ DistinctIds(it_tickets')
       /\ FreshIds(cyber_incidents, cyber_incidents', sqlite_sequence["cyber_incidents"])
       /\ FreshIds(datasets_metadata, datasets_metadata',
                   sqlite_sequence["datasets_metadata"])
       /\ FreshIds(it_tickets, it_tickets', sqlite_sequence["it_tickets"])
       /\ \A r \in cyber_incidents' : r.id <= sqlite_sequence'["cyber_incidents"]
       /\ \A r \in datasets_metadata' : r.id <= sqlite_sequence'["datasets_metadata"]
       /\ \A r \in it_tickets' : r.id <= sqlite_sequence'["it_tickets"]
       /\ \A a \in IncidentArgs :
              (last'.op = "create_incident" /\ create_incident(a)
                   /\ ~intRaises(a.incident_id)
                   /\ \E r \in cyber_incidents : r.incident_id = int(a.incident_id)) =>
              /\ last'.ret = None
              /\ Cardinality(cyber_incidents') = Cardinality(cyber_incidents) + 1
       /\ \A a \in TicketArgs :
              (last'.op = "create_ticket" /\ create_ticket(a)
                   /\ ~intRaises(a.ticket_id) /\ ~intRaises(a.resolution_time_hours)
                   /\ \E r \in it_tickets : r.ticket_id = int(a.ticket_id)) =>
              /\ last'.ret = None
              /\ Cardinality(it_tickets') = Cardinality(it_tickets) + 1]_vars

\* C26 witness: an incident was created after the incident with id 1 had been
\* deleted; it has id 2, and id 1 is not in use.
C26_Witness ==
    /\ last.op = "create_incident" /\ last.ret = None /\ last.id = 2
    /\ cyber_incidents # {}
    /\ \A r \in cyber_incidents : r.id = 2

\* a second row with the external identifier of a row that is there
C26_WitnessSameExternalId ==
    /\ last.op = "create_incident" /\ last.ret = None
    /\ \E r1, r2 \in cyber_incidents : r1.id # r2.id /\ r1.incident_id = r2.incident_id

----------------------------------------------------------------------------
(* Properties across the Record Access units *)

\* the operations of the incident unit
IncidentOps ==
    {"SecurityService", "create_incident", "update_incident", "delete_incident",
     "all_incidents", "load_csv_incidents", "incidents_total_count",
     "incidents_open_count", "category_counts", "severity_counts",
     "incidents_status_counts"}

\* the operations of the dataset unit
DatasetOps ==
    {"DatasetService", "create_dataset", "update_dataset", "delete_dataset",
     "all_datasets", "load_csv_datasets", "datasets_total_count", "total_rows",
     "uploader_summary"}

\* the operations of the ticket unit
TicketOps ==
    {"ITService", "create_ticket", "update_ticket", "delete_ticket", "all_tickets",
     "load_csv_tickets", "tickets_total_count", "tickets_open_count",
     "avg_resolution_time", "priority_counts", "tickets_status_counts",
     "assignee_summary", "slowest_assignee"}

\* C27: an operation of one Record Access unit leaves the tables of the other
\* two units (rows and id high-water marks) as they were.
C27_UnitsIndependent ==
    [][/\ last'.op \in IncidentOps =>
              /\ datasets_metadata' = datasets_metadata /\ it_tickets' = it_tickets
              /\ sqlite_sequence'["datasets_metadata"] = sqlite_sequence["datasets_metadata"]
              /\ sqlite_sequence'["it_tickets"] = sqlite_sequence["it_tickets"]
       /\ last'.op \in DatasetOps =>
              /\ cyber_incidents' = cyber_incidents /\ it_tickets' = it_tickets
              /\ sqlite_sequence'["cyber_incidents"] = sqlite_sequence["cyber_incidents"]
              /\ sqlite_sequence'["it_tickets"] = sqlite_sequence["it_tickets"]
       /\ last'.op \in TicketOps =>
              /\ cyber_incidents' = cyber_incidents
              /\ datasets_metadata' = datasets_metadata
              /\ sqlite_sequence'["cyber_incidents"] = sqlite_sequence["cyber_incidents"]
              /\ sqlite_sequence'["datasets_metadata"] =
                     sqlite_sequence["datasets_metadata"]]_vars

\* C27 witness: a dataset has been deleted on a store that holds a ticket
\* with another unit's row under the same id.
C27_Witness ==
    /\ last.op = "delete_dataset" /\ last.hit
    /\ \E r \in it_tickets : r.id = last.id

----------------------------------------------------------------------------
(* No retry; how a failed write reaches the caller *)

\* the calls that write one row by one statement
SingleWriteOps ==
    {"create_incident", "update_incident", "delete_incident",
     "create_dataset", "update_dataset", "delete_dataset",
     "create_ticket", "update_ticket", "delete_ticket"}

\* the bulk imports
BulkOps == {"load_csv_incidents", "load_csv_datasets", "load_csv_tickets"}

\* the table a write call of a Record Access unit writes
WrittenTable(op, inc, ds, tk) ==
    IF op \in IncidentOps THEN inc ELSE IF op \in DatasetOps THEN ds ELSE tk

\* the call recorded in l ended by raising
IsRaised(l) == IF l.op = "register" THEN l.ret \notin BOOLEAN ELSE l.ret.t = "raise"

\* no call issues its statement more than once: a create, update or delete
\* that returns has issued one statement and one that raises has issued none,
\* a bulk import has issued one INSERT for each row it added, and register
\* has issued at most one INSERT and added at most that many rows
IssuedOnce ==
    /\ last'.op \in SingleWriteOps =>
          /\ last'.stmts = (IF last'.ret = None THEN 1 ELSE 0)
          /\ Cardinality(WrittenTable(last'.op, cyber_incidents', datasets_metadata',
                                      it_tickets')
                         \ WrittenTable(last'.op, cyber_incidents, datasets_metadata,
                                        it_tickets)) <= last'.stmts
    /\ last'.op \in BulkOps =>
          last'.stmts = Cardinality(WrittenTable(last'.op, cyber_incidents',
                                                 datasets_metadata', it_tickets')
                                    \ WrittenTable(last'.op, cyber_incidents,
                                                   datasets_metadata, it_tickets))
    /\ last'.op = "register" =>
          /\ last'.stmts = (IF ValidCall(last', "register") THEN 1 ELSE 0)
          /\ Cardinality(users' \ users) <= last'.stmts

\* a failed write of a Record Access unit raises at once and writes nothing:
\* a create or update whose numeric argument int() rejects raises that error
\* with the table as it was, and a bulk import that raised stopped at the
\* failing record
RecordFailureRaised ==
    /\ \A a \in IncidentArgs :
          /\ (last'.op = "create_incident" /\ create_incident(a) /\ intRaises(a.incident_id))
                 => /\ last'.ret = intError(a.incident_id)
                    /\ cyber_incidents' = cyber_incidents
          /\ \A id \in Ids :
                (last'.op = "update_incident" /\ update_incident(id, a)
                 /\ intRaises(a.incident_id))
                    => /\ last'.ret = intError(a.incident_id)
                       /\ cyber_incidents' = cyber_incidents
    /\ \A a \in DatasetArgs :
          /\ (last'.op = "create_dataset" /\ create_dataset(a) /\ datasetError(a) # None)
                 => /\ last'.ret = datasetError(a)
                    /\ datasets_metadata' = datasets_metadata
          /\ \A id \in Ids :
                (last'.op = "update_dataset" /\ update_dataset(id, a)
                 /\ datasetError(a) # None)
                    => /\ last'.ret = datasetError(a)
                       /\ datasets_metadata' = datasets_metadata
    /\ \A a \in TicketArgs :
          /\ (last'.op = "create_ticket" /\ create_ticket(a) /\ ticketError(a) # None)
                 => /\ last'.ret = ticketError(a)
                    /\ it_tickets' = it_tickets
          /\ \A id \in Ids :
                (last'.op = "update_ticket" /\ update_ticket(id, a)
                 /\ ticketError(a) # None)
                    => /\ last'.ret = ticketError(a)
                       /\ it_tickets' = it_tickets
    /\ (last'.op \in BulkOps /\ last'.path \in {"bad", "nocol", "nofile"})
          => /\ IsRaised(last')
             /\ last'.stmts < 2

\* register issued its INSERT and the statement failed: no row was added
RegisterInsertFailed ==
    last'.op = "register" /\ last'.stmts = 1 /\ users' = users

\* C30 as stated: no call retries, and every failed write, the failed INSERT
\* of register included, reaches the caller as a raised error.
C30_FailedWriteRaised ==
    [][/\ IssuedOnce
       /\ RecordFailureRaised
       /\ RegisterInsertFailed => IsRaised(last')]_vars

\* C30 amended: no call retries; a failed write of a Record Access unit
\* reaches the caller as a raised error, and the failed INSERT of register
\* reaches the caller as the result False, with the users table as it was.
C30_NoRetryFailureSurfaced ==
    [][/\ IssuedOnce
       /\ RecordFailureRaised
       /\ RegisterInsertFailed => last'.ret = FALSE]_vars

\* C30 witness: register has issued its INSERT for a username that has a row
\* and returned False, on a store where a ticket was created before.
C30_Witness ==
    /\ last.op = "register" /\ last.stmts = 1 /\ last.ret = FALSE
    /\ \E r \in users : r.username = last.username
    /\ it_tickets # {}

----------------------------------------------------------------------------
(* The advisory assistant *)

\* C22: ask never raises and always returns a non-empty string; an
\* assistant that is not configured answers every non-blank prompt with the
\* same guidance text, and a provider call that throws gives the inline
\* error string.
C22_AskReturnsText ==
    last.op = "ask" =>
        /\ last.ret.t = "str" /\ last.ret.v # <<>>
        /\ (~ai.enabled /\ rstrip(lstrip(last.prompt.v)) # <<>>) => last.ret = GuidanceText
        /\ last.provider.kind = "raise" =>
               /\ Len(last.ret.v) >= Len(ErrorPrefix)
               /\ SubSeq(last.ret.v, 1, Len(ErrorPrefix)) = ErrorPrefix

----------------------------------------------------------------------------
(* Browser sessions *)

\* the identity of a users row: the row without its credential
IdentityOf(r) == [id |-> r.id, username |-> r.username, role |-> r.role]

\* C29: current_user changes only by a login that returned an identity, to
\* exactly that identity, and by logout, to None; a failed login and
\* register leave it as it was; so it always is None or the identity of a
\* row of the users table.
C29_CurrentUser ==
    /\ [](\A s \in Sessions :
             \/ session[s].current_user = None
             \/ \E r \in users : session[s].current_user = IdentityOf(r))
    /\ [][\A s \in Sessions :
             /\ session'[s].current_user # session[s].current_user =>
                   \/ /\ last'.op = "login"
                      /\ last'.ret # None
                      /\ session'[s].current_user = last'.ret
                      /\ \E r \in users : /\ r.username = last'.username
                                          /\ last'.ret = IdentityOf(r)
                   \/ /\ last'.op = "logout"
                      /\ session'[s].current_user = None
             /\ (last'.op = "login" /\ last'.ret = None) =>
                   session'[s].current_user = session[s].current_user
             /\ last'.op = "register" =>
                   session'[s].current_user = session[s].current_user]_vars

\* C29 witness: one session is logged in as a registered user and the other,
\* which was logged in, has logged out.
C29_Witness ==
    /\ last.op = "logout"
    /\ \E s, t \in Sessions :
          /\ session[s].current_user = None
          /\ session[t].current_user # None
          /\ \E r \in users : session[t].current_user = IdentityOf(r)

\* the operations of the unit a dashboard page works on
PageOps ==
    [Cybersecurity |-> IncidentOps, Data_Science |-> DatasetOps,
     IT_Operations |-> TicketOps]

\* C28: no operation of a Record Access unit, its construction included, runs
\* in a page execution of a session whose current_user is None: a page body
\* is only ever running in a session that is logged in, and a prologue that
\* finds current_user = None stops without touching the store.
C28_PagesRequireLogin ==
    /\ [](\A s \in Sessions : session[s].page \in Pages => session[s].current_user # None)
    /\ [][/\ \A p \in Pages :
                last'.op \in PageOps[p] =>
                    \E s \in Sessions : /\ session'[s].page = p
                                        /\ session[s].current_user # None
                                        /\ session'[s].current_user # None
          /\ last'.op = "require_auth" =>
                /\ \E s \in Sessions : /\ session[s].current_user = None
                                       /\ session[s].page = "idle"
                /\ UNCHANGED <<session, tables, cyber_incidents, datasets_metadata,
                               it_tickets, sqlite_sequence>>]_vars

\* C28 witness: a session that created an incident while logged in has
\* logged out, and its next execution of a dashboard page was stopped.
C28_Witness ==
    /\ last.op = "require_auth"
    /\ session[1].current_user = None /\ session[1].page = "idle"
    /\ cyber_incidents # {}

\* the row an update call with arguments a leaves under id
UpdatedRow(id, a) == [id |-> id] @@ incidentParams(a)

\* C21: a read through any session's service returns the table as the writes
\* that have returned left it: all() lists exactly the rows of the table,
\* the page that called it holds those rows, total_count is their number,
\* and the all() that follows an update made in another session shows the
\* updated row.
C21_ReadsReflectWrites ==
    [][/\ last'.op = "all_incidents" =>
             /\ NewestFirst(last'.ret, cyber_incidents, "timestamp")
             /\ \A s \in Sessions :
                   session'[s].view # session[s].view =>
                       session'[s].view = cyber_incidents
       /\ last'.op = "incidents_total_count" => last'.ret = Cardinality(cyber_incidents)
       /\ (/\ last.op = "update_incident" /\ last.ret = None /\ last.hit
           /\ last'.op = "all_incidents") =>
             \E t \in Sessions : \E w \in session[t].wrote :
                 /\ w.id = last.id
                 /\ \E i \in DOMAIN last'.ret : last'.ret[i] = UpdatedRow(w.id, w.a)]_vars

\* C21 witness: one session read a row and updated it; the other session's
\* all(), made afterwards, returned the row as updated.
C21_Witness ==
    /\ last.op = "all_incidents"
    /\ \E s, t \in Sessions : \E w \in session[t].wrote :
          /\ s # t
          /\ ~intRaises(w.a.incident_id)
          /\ \E r0 \in session[t].view : r0.id = w.id /\ r0 # UpdatedRow(w.id, w.a)
          /\ UpdatedRow(w.id, w.a) \in session[s].view
          /\ UpdatedRow(w.id, w.a) \in cyber_incidents

\* C25: an update of an existing row that int() accepts returns, whatever
\* any session has read or written before, and leaves under that id exactly
\* the fields it was given, the other rows as they were; so of two updates
\* of one id the later one alone decides the row.
C25_LaterUpdateWins ==
    [][/\ \A s \in Sessions, id \in Ids, a \in IncidentArgs :
             (/\ last'.op = "update_incident" /\ last'.id = id
              /\ page_update_incident(s, id, a)
              /\ ~intRaises(a.incident_id)
              /\ \E r \in cyber_incidents : r.id = id)
             => /\ last'.ret = None
                /\ cyber_incidents' =
                       {r \in cyber_incidents : r.id # id} \cup {UpdatedRow(id, a)}
       /\ \A s \in Sessions, id \in Ids, a \in TicketArgs :
             (/\ last'.op = "update_ticket" /\ last'.id = id
              /\ page_update_ticket(s, id, a)
              /\ ticketError(a) = None
              /\ \E r \in it_tickets : r.id = id)
             => /\ last'.ret = None
                /\ it_tickets' =
                       {r \in it_tickets : r.id # id}
                       \cup {[id |-> id] @@ ticketParams(a)}]_vars

\* C25 witness: both sessions read the same row, the first then changed it,
\* and the update of the second, made last with other fields, is all the
\* row holds.
C25_Witness ==
    /\ last.op = "update_incident"
    /\ \E w1 \in session[1].wrote, w2 \in session[2].wrote :
          /\ w1.id = w2.id
          /\ ~intRaises(w1.a.incident_id) /\ ~intRaises(w2.a.incident_id)
          /\ UpdatedRow(w1.id, w1.a) # UpdatedRow(w2.id, w2.a)
          /\ \E r0 \in session[1].view \cap session[2].view :
                /\ r0.id = w1.id
                /\ r0 # UpdatedRow(w1.id, w1.a)
          /\ UpdatedRow(w2.id, w2.a) \in cyber_incidents

\* C24: when two sessions have each called register once for a username that
\* had no row when their calls began, and both calls have returned, at most
\* one returned True, the table holds exactly one row for the username, and
\* that row's credential verifies the password of the call that returned
\* True.
C24_RegisterRace ==
    \A s, t \in Sessions : \A r1 \in session[s].reg, r2 \in session[t].reg :
        (/\ s # t
         /\ r1.phase = "returned" /\ r2.phase = "returned"
         /\ r1.username = r2.username
         /\ ~Empty(r1.username) /\ ~Empty(r1.password) /\ ~Empty(r2.password)
         /\ r1.fresh /\ r2.fresh)
        => /\ ~(r1.ret /\ r2.ret)
           /\ Cardinality(UserRows(users, r1.username)) = 1
           /\ \A w \in {r1, r2} :
                 w.ret => \A row \in UserRows(users, r1.username) :
                              checkpw(encode(w.password), row.password_hash)

\* C24 witness: the two sessions' calls for the same new username, with
\* different passwords, overlapped (the second began before the first
\* had committed) and both have returned.
C24_Witness ==
    \E s, t \in Sessions : \E r1 \in session[s].reg, r2 \in session[t].reg :
        /\ s # t
        /\ r1.phase = "returned" /\ r2.phase = "returned"
        /\ r1.username = r2.username /\ r1.password # r2.password
        /\ r1.fresh /\ r2.fresh
        /\ r1.ret /\ ~r2.ret
        /\ ~Empty(r2.password)

====
